---- MODULE Spec2Model ----
(***************************************************************************)
(* Model of the uplora CRM backend: the lead / contact / client / deal /   *)
(* task services and the relational schema they run on.                    *)
(*                                                                         *)
(* Tables are functions from primary key to row.  A nullable integer       *)
(* column holds 0 for SQL NULL (SERIAL keys start at 1, and the services   *)
(* treat 0 and null alike through `x || null` and `!x`).  Text that the    *)
(* code parses, formats or case-folds is a sequence of ASCII codes.        *)
(***************************************************************************)
EXTENDS Integers, Sequences, FiniteSets, TLC

(***************************************************************************)
(* Bounds of the model.                                                    *)
(***************************************************************************)
MaxContacts == 3      \* values the contacts id sequence may hand out
MaxLeads == 2         \* values the leads id sequence may hand out
MaxLogRows == 1       \* rows per timeline log (activities, cold_calls, onsite_visits)
MaxDeals == 2         \* values the deals id generator may hand out
MaxTasks == 1         \* values the team_tasks id sequence may hand out
MaxNotifications == 2 \* values the notifications id sequence may hand out
NProcs == 2
MaxDrawnRows == 2
FeedLimit == 2      \* rows kept per log and in the feed; 25 in the code           \* requests that may be in flight at once

(***************************************************************************)
(* Program constants.                                                      *)
(***************************************************************************)
NULL == 0
PoolMax == 5
PadWidth == 6
Procs == 1..NProcs

(***************************************************************************)
(* Text as sequences of ASCII codes.                                       *)
(***************************************************************************)
Ch0 == 48
CLTPrefix == <<67, 76, 84, 45>>      \* "CLT-"
NoText == << >>                      \* SQL NULL of a text column

IsDigit(c) == c >= 48 /\ c <= 57

\* String comparison of ORDER BY client_number: code by code, a proper
\* prefix sorts first.
RECURSIVE StrLess(_, _)
StrLess(a, b) ==
    IF b = << >> THEN FALSE
    ELSE IF a = << >> THEN TRUE
    ELSE IF Head(a) # Head(b) THEN Head(a) < Head(b)
    ELSE StrLess(Tail(a), Tail(b))

\* client_number LIKE 'CLT-%'
LikeCLT(s) == Len(s) >= 4 /\ SubSeq(s, 1, 4) = CLTPrefix

\* s.replace('CLT-', '') on a string that starts with the prefix
StripCLT(s) == IF LikeCLT(s) THEN SubSeq(s, 5, Len(s)) ELSE s

\* parseInt: the value of the leading decimal digits (NaN, here -1, if none)
RECURSIVE ParseDigits(_, _)
ParseDigits(s, acc) ==
    IF s = << >> \/ ~IsDigit(Head(s)) THEN acc
    ELSE ParseDigits(Tail(s), acc * 10 + (Head(s) - Ch0))

parseInt(s) == IF s = << >> \/ ~IsDigit(Head(s)) THEN -1 ELSE ParseDigits(s, 0)

\* Number.prototype.toString for a non-negative integer
RECURSIVE toString(_)
toString(n) ==
    IF n < 10 THEN <<Ch0 + n>>
    ELSE Append(toString(n \div 10), Ch0 + (n % 10))

\* String.prototype.padStart(width, '0')
RECURSIVE padStart(_, _)
padStart(s, width) == IF Len(s) >= width THEN s ELSE padStart(<<Ch0>> \o s, width)

\* the number written without the zero padding
FormatClientNumber_NoPad(n) == CLTPrefix \o toString(n)

\* `CLT-${n.toString().padStart(6, '0')}`
FormatClientNumber(n) == CLTPrefix \o padStart(toString(n), PadWidth)

\* the text left in the case it came in
toLowerCase_AsGiven(s) == s

\* String.prototype.toLowerCase on ASCII
ToLowerChar(c) == IF c >= 65 /\ c <= 90 THEN c + 32 ELSE c
toLowerCase(s) == [i \in 1..Len(s) |-> ToLowerChar(s[i])]

(***************************************************************************)
(* State.                                                                  *)
(***************************************************************************)
VARIABLES
    contacts,       \* id -> [name, is_client, client_number, lead_id, deleted_at, tx]
    leads,          \* id -> [contact_id, stage, status, tx]
    activities,     \* id -> [lead_id, contact_id, activity_type, created_at]
    cold_calls,     \* id -> [lead_id, created_at]
    onsite_visits,  \* id -> [lead_id, created_at]
    deals,          \* id -> [lead_id, stage]
    team_tasks,     \* id -> [lead_id, client_id, assigned_to_email, status, created_at]
    notifications,  \* id -> [user_email, type, related_task_id, related_lead_id, is_read]
    seqs,           \* last value handed out by each table's id sequence
    pool,           \* the connection pool: [out |-> connections checked out,
                    \*   session_tz |-> UTC offset (s) of the database sessions,
                    \*   process_tz |-> UTC offset (s) of the server process]
    procs,          \* the requests in flight: position and locals of each
    limit,          \* how many requests may be in flight together
    assigned,       \* history: client numbers returned by createClient, in order
    last            \* history: the call that completed last, with the tables before it

vars == <<contacts, leads, activities, cold_calls, onsite_visits, deals, team_tasks,
          notifications, seqs, pool, procs, limit, assigned, last>>

Tables == [contacts |-> contacts, leads |-> leads, activities |-> activities,
           cold_calls |-> cold_calls, onsite_visits |-> onsite_visits, deals |-> deals,
           team_tasks |-> team_tasks, notifications |-> notifications]

EmptyTable == << >>
Insert(t, id, row) == t @@ (id :> row)
Delete(t, id) == [i \in (DOMAIN t) \ {id} |-> t[i]]

NoTables == [contacts |-> EmptyTable, leads |-> EmptyTable, activities |-> EmptyTable,
             cold_calls |-> EmptyTable, onsite_visits |-> EmptyTable, deals |-> EmptyTable,
             team_tasks |-> EmptyTable, notifications |-> EmptyTable]

\* The tables at the entry of a request; kept while requests do not overlap.
Snapshot == IF limit = 1 THEN Tables ELSE NoTables

\* A request slot: the operation, its position, its arguments (id, arg) and
\* its locals (cid, lid: keys it was given; num: client number; res: the value
\* to return; cause: the first error caught; err: the error that will be
\* thrown; conn: holds a pool connection; pre: tables at entry).
IdleProc == [op |-> "idle", pc |-> "idle", id |-> 0, arg |-> 0, cid |-> 0, lid |-> 0,
             num |-> NoText, res |-> "none", err |-> "none", cause |-> "none",
             conn |-> FALSE, pre |-> NoTables]

\* what a call returns when it returns no list
NoOut == << >>

NoCall == [op |-> "none", id |-> 0, arg |-> 0, res |-> "none", err |-> "none",
           cause |-> "none", cid |-> 0, lid |-> 0, num |-> NoText, pre |-> NoTables,
           out |-> NoOut]

\* The request on slot p returns res (or raises: res = "error", err names the
\* error that reaches the caller).
Return(p, res, err) ==
    /\ procs' = [procs EXCEPT ![p] = IdleProc]
    /\ last' = [op |-> procs[p].op, id |-> procs[p].id, arg |-> procs[p].arg,
                res |-> res, err |-> err,
                cause |-> IF procs[p].cause = "none" THEN err ELSE procs[p].cause,
                cid |-> procs[p].cid, lid |-> procs[p].lid,
                num |-> procs[p].num, pre |-> procs[p].pre, out |-> NoOut]

\* A request that completes in the step that starts it.
ReturnAtOnce(op, id, arg, res, err) ==
    /\ procs' = procs
    /\ last' = [op |-> op, id |-> id, arg |-> arg, res |-> res, err |-> err,
                cause |-> err, cid |-> 0, lid |-> 0, num |-> NoText, pre |-> Snapshot,
                out |-> NoOut]

\* A request starts on slot p; the record of the last return is dropped.
Begin(p, op, pc, id, arg) ==
    /\ procs' = [procs EXCEPT ![p] = [IdleProc EXCEPT !.op = op, !.pc = pc, !.id = id,
                                                       !.arg = arg, !.pre = Snapshot]]
    /\ last' = NoCall

AllIdle == \A p \in Procs : procs[p].op = "idle"
InFlight == Cardinality({p \in Procs : procs[p].op # "idle"})
\* a request may start on p: p is free, the lower slots are taken first
CanStart(p) ==
    /\ procs[p].op = "idle"
    /\ InFlight < limit
    /\ \A q \in Procs : q < p => procs[q].op # "idle"

InitTables ==
    /\ contacts = EmptyTable
    /\ leads = EmptyTable
    /\ activities = EmptyTable
    /\ cold_calls = EmptyTable
    /\ onsite_visits = EmptyTable
    /\ deals = EmptyTable
    /\ team_tasks = EmptyTable
    /\ notifications = EmptyTable
    /\ seqs = [contacts |-> 0, leads |-> 0, activities |-> 0, cold_calls |-> 0,
               onsite_visits |-> 0, deals |-> 0, team_tasks |-> 0, notifications |-> 0]
    /\ pool = [out |-> 0, session_tz |-> 0, process_tz |-> 0]
    /\ procs = [p \in Procs |-> IdleProc]
    /\ assigned = << >>
    /\ last = NoCall

Init == InitTables /\ limit = 1

(***************************************************************************)
(* Referential constraints of the schema (all ON DELETE NO ACTION, except  *)
(* notifications.related_lead_id, which is ON DELETE SET NULL).            *)
(***************************************************************************)
\* rows that reference lead l and so block DELETE FROM leads
LeadReferenced(l) ==
    \/ \E i \in DOMAIN cold_calls : cold_calls[i].lead_id = l
    \/ \E i \in DOMAIN onsite_visits : onsite_visits[i].lead_id = l
    \/ \E i \in DOMAIN activities : activities[i].lead_id = l
    \/ \E i \in DOMAIN deals : deals[i].lead_id = l
    \/ \E i \in DOMAIN team_tasks : team_tasks[i].lead_id = l
    \/ \E i \in DOMAIN contacts : contacts[i].lead_id = l

\* rows that reference contact c and so block DELETE FROM contacts
ContactReferenced(c) ==
    \/ \E i \in DOMAIN leads : leads[i].contact_id = c
    \/ \E i \in DOMAIN activities : activities[i].contact_id = c
    \/ \E i \in DOMAIN team_tasks : team_tasks[i].client_id = c

\* a lead whose DELETE is executed but not yet committed is row-locked:
\* inserts of rows that reference it wait for the end of that transaction
LeadLocked(l) ==
    \E q \in Procs : procs[q].op = "deleteLead" /\ procs[q].pc = "commit" /\ procs[q].id = l

\* a lead_id column without its foreign key
LeadFkOk_NoConstraint(l) == TRUE

\* the foreign key of a nullable lead_id column accepts the value
LeadFkOk(l) == l = NULL \/ l \in DOMAIN leads

\* requests in flight that will still draw from the contacts id sequence
ContactIdsReserved ==
    Cardinality({q \in Procs : /\ procs[q].op \in {"createClient", "createLead"}
                               /\ procs[q].cid = 0})

(***************************************************************************)
(* clients.service: generateClientNumber, createClient, updateClient,      *)
(* deleteClient, restoreClient, permanentDeleteClient.                     *)
(***************************************************************************)
ClientNumbers == {contacts[i].client_number : i \in DOMAIN contacts}

\* a contacts table without the UNIQUE constraint on client_number
UniqueClientNumberOk_NoConstraint(num) == TRUE

UniqueClientNumberOk(num) == num = NoText \/ num \notin ClientNumbers

FirstClientNumber == <<67, 76, 84, 45, 48, 48, 48, 48, 48, 49>>     \* 'CLT-000001'

generateClientNumber ==
    LET rows == {s \in ClientNumbers : s # NoText /\ LikeCLT(s)}
        top == CHOOSE s \in rows : \A t \in rows : ~StrLess(s, t)
    IN  IF rows = {} THEN FirstClientNumber
        ELSE FormatClientNumber(parseInt(StripCLT(top)) + 1)

\* WHERE c.id = $1 AND c.is_client = true AND c.deleted_at IS NULL
getClientById(id) ==
    id \in DOMAIN contacts /\ contacts[id].is_client /\ contacts[id].deleted_at = NULL

UnchangedButContacts ==
    UNCHANGED <<leads, activities, cold_calls, onsite_visits, deals, team_tasks,
                notifications, pool, limit>>

\* createClient, first query: read the highest client number
createClientGenerate(p, leadId) ==
    /\ CanStart(p)
    /\ seqs.contacts + ContactIdsReserved < MaxContacts
    /\ procs' = [procs EXCEPT ![p] = [IdleProc EXCEPT !.op = "createClient",
                     !.pc = "insert", !.arg = leadId, !.num = generateClientNumber,
                     !.pre = Snapshot]]
    /\ last' = NoCall
    /\ UNCHANGED <<contacts, seqs, assigned>>
    /\ UnchangedButContacts

\* createClient, second query: INSERT INTO contacts ... is_client = true
createClientInsert(p) ==
    /\ procs[p].op = "createClient" /\ procs[p].pc = "insert"
    /\ ~LeadLocked(procs[p].arg)
    /\ LET id == seqs.contacts + 1
           num == procs[p].num
       IN  /\ seqs' = [seqs EXCEPT !.contacts = id]
           /\ IF ~UniqueClientNumberOk(num)
                THEN /\ Return(p, "error", "unique_violation")
                     /\ UNCHANGED <<contacts, assigned>>
              ELSE IF ~LeadFkOk(procs[p].arg)
                THEN /\ Return(p, "error", "fk_violation")
                     /\ UNCHANGED <<contacts, assigned>>
              ELSE /\ contacts' = Insert(contacts, id,
                            [name |-> "a", is_client |-> TRUE, client_number |-> num,
                             lead_id |-> procs[p].arg, deleted_at |-> NULL, tx |-> 0])
                   /\ assigned' = Append(assigned, num)
                   /\ procs' = [procs EXCEPT ![p] = IdleProc]
                   /\ last' = [op |-> "createClient", id |-> id, arg |-> procs[p].arg,
                               res |-> "ok", err |-> "none", cause |-> "none",
                               cid |-> id, lid |-> 0,
                               num |-> num, pre |-> procs[p].pre]
    /\ UnchangedButContacts

\* updateClient: with no field given it only reads; otherwise UPDATE contacts ... WHERE id
updateClientUpdate(p, id, name) ==
    /\ CanStart(p)
    /\ IF name = "undefined"
         THEN /\ ReturnAtOnce("updateClient", id, 0,
                              IF getClientById(id) THEN "client" ELSE "null", "none")
              /\ UNCHANGED contacts
         ELSE /\ Begin(p, "updateClient", "read", id, 0)
              /\ contacts' = IF id \in DOMAIN contacts
                               THEN [contacts EXCEPT ![id].name = name]
                               ELSE contacts
    /\ UNCHANGED <<seqs, assigned>>
    /\ UnchangedButContacts

\* updateClient: return getClientById(id)
updateClientRead(p) ==
    /\ procs[p].op = "updateClient" /\ procs[p].pc = "read"
    /\ Return(p, IF getClientById(procs[p].id) THEN "client" ELSE "null", "none")
    /\ UNCHANGED <<contacts, seqs, assigned>>
    /\ UnchangedButContacts

\* deleteClient: SELECT id, is_client, deleted_at, and the three early returns
deleteClientCheck(p, id) ==
    /\ CanStart(p)
    /\ IF \/ id \notin DOMAIN contacts
          \/ ~contacts[id].is_client
          \/ contacts[id].deleted_at # NULL
         THEN ReturnAtOnce("deleteClient", id, 0, "false", "none")
         ELSE Begin(p, "deleteClient", "update", id, 0)
    /\ UNCHANGED <<contacts, seqs, assigned>>
    /\ UnchangedButContacts

\* a deleteClient that reports the row as trashed without stamping deleted_at
deleteClientUpdate_NoStamp(p) ==
    /\ procs[p].op = "deleteClient" /\ procs[p].pc = "update"
    /\ LET id == procs[p].id
           hit == id \in DOMAIN contacts /\ contacts[id].is_client
                  /\ contacts[id].deleted_at = NULL
       IN  Return(p, IF hit THEN "true" ELSE "false", "none")
    /\ UNCHANGED <<contacts, seqs, assigned>>
    /\ UnchangedButContacts

\* a deleteClient whose UPDATE has only WHERE id = $1
deleteClientUpdate_Unguarded(p) ==
    /\ procs[p].op = "deleteClient" /\ procs[p].pc = "update"
    /\ LET id == procs[p].id
           hit == id \in DOMAIN contacts
       IN  /\ contacts' = IF hit THEN [contacts EXCEPT ![id].deleted_at = 1] ELSE contacts
           /\ Return(p, IF hit THEN "true" ELSE "false", "none")
    /\ UNCHANGED <<seqs, assigned>>
    /\ UnchangedButContacts

\* deleteClient: UPDATE ... SET deleted_at = NOW() WHERE id AND is_client AND deleted_at IS NULL
deleteClientUpdate(p) ==
    /\ procs[p].op = "deleteClient" /\ procs[p].pc = "update"
    /\ LET id == procs[p].id
           hit == id \in DOMAIN contacts /\ contacts[id].is_client
                  /\ contacts[id].deleted_at = NULL
       IN  /\ contacts' = IF hit THEN [contacts EXCEPT ![id].deleted_at = 1] ELSE contacts
           /\ Return(p, IF hit THEN "true" ELSE "false", "none")
    /\ UNCHANGED <<seqs, assigned>>
    /\ UnchangedButContacts

\* the check shared by restoreClient and permanentDeleteClient
NotInTrash(id) ==
    \/ id \notin DOMAIN contacts
    \/ ~contacts[id].is_client
    \/ contacts[id].deleted_at = NULL

\* WHERE id = $1 AND is_client = true AND deleted_at IS NOT NULL
TrashedRow(id) ==
    id \in DOMAIN contacts /\ contacts[id].is_client /\ contacts[id].deleted_at # NULL

restoreClientCheck(p, id) ==
    /\ CanStart(p)
    /\ IF NotInTrash(id)
         THEN ReturnAtOnce("restoreClient", id, 0, "false", "none")
         ELSE Begin(p, "restoreClient", "update", id, 0)
    /\ UNCHANGED <<contacts, seqs, assigned>>
    /\ UnchangedButContacts

restoreClientUpdate(p) ==
    /\ procs[p].op = "restoreClient" /\ procs[p].pc = "update"
    /\ LET id == procs[p].id
       IN  /\ contacts' = IF TrashedRow(id)
                            THEN [contacts EXCEPT ![id].deleted_at = NULL]
                            ELSE contacts
           /\ Return(p, IF TrashedRow(id) THEN "true" ELSE "false", "none")
    /\ UNCHANGED <<seqs, assigned>>
    /\ UnchangedButContacts

permanentDeleteClientCheck(p, id) ==
    /\ CanStart(p)
    /\ IF NotInTrash(id)
         THEN ReturnAtOnce("permanentDeleteClient", id, 0, "false", "none")
         ELSE Begin(p, "permanentDeleteClient", "delete", id, 0)
    /\ UNCHANGED <<contacts, seqs, assigned>>
    /\ UnchangedButContacts

\* DELETE FROM contacts WHERE id AND is_client AND deleted_at IS NOT NULL
permanentDeleteClientDelete(p) ==
    /\ procs[p].op = "permanentDeleteClient" /\ procs[p].pc = "delete"
    /\ LET id == procs[p].id
       IN  IF ~TrashedRow(id)
             THEN Return(p, "false", "none") /\ UNCHANGED contacts
           ELSE IF ContactReferenced(id)
             THEN Return(p, "error", "fk_violation") /\ UNCHANGED contacts
           ELSE Return(p, "true", "none") /\ contacts' = Delete(contacts, id)
    /\ UNCHANGED <<seqs, assigned>>
    /\ UnchangedButContacts

(***************************************************************************)
(* leads service: createLead and deleteLead, one step per awaited query.   *)
(* A query on the checked-out connection may fail; which one fails is the  *)
(* database's choice.  Rows written inside the transaction become visible  *)
(* at COMMIT; the id sequences are not transactional.                      *)
(***************************************************************************)
UnchangedLogs == UNCHANGED <<activities, cold_calls, onsite_visits>>

LeadIdsReserved ==
    Cardinality({q \in Procs : procs[q].op = "createLead" /\ procs[q].lid = 0})

\* The stage a request carries is one of five texts: none (0), 'qualified'
\* (1), a text of 51 letters (2), a text of 101 letters (3), 'bogus' (4).
StageLength(stage) ==
    CASE stage = 0 -> 0 [] stage = 1 -> 9 [] stage = 2 -> 51 [] stage = 4 -> 5
      [] OTHER -> 101

StageMaxLength == 100       \* z.string().max(100) of createLeadSchema
StageColumnWidth == 50      \* leads.stage VARCHAR(50)

\* a catch block that never completes
Caught_Hangs(p, e) == procs' = [procs EXCEPT ![p].pc = "hung", ![p].cause = e, ![p].err = e]

\* the catch block is entered with error e
Caught(p, e) == procs' = [procs EXCEPT ![p].pc = "rollback", ![p].cause = e, ![p].err = e]

CONNECTION_TIMEOUT_MS == 5000    \* connectionTimeoutMillis of the pool
AcquireTimeoutMs == 8000         \* getPoolClient(8000)

\* a pool whose connect() may settle at any time
getPoolClient_SlowPool(timeoutMs) ==
    {[client |-> TRUE, late |-> 0], [client |-> FALSE, late |-> 0],
     [client |-> FALSE, late |-> 1]}

\* Promise.race([pool.connect(), timer(timeoutMs)]): the outcomes of a call.
\* pool.connect() resolves or rejects within CONNECTION_TIMEOUT_MS; only a
\* shorter timer can reject the call first, and then the pool may still
\* deliver a client that nobody holds (late).
getPoolClient(timeoutMs) ==
    {[client |-> TRUE, late |-> 0], [client |-> FALSE, late |-> 0]}
      \cup (IF timeoutMs < CONNECTION_TIMEOUT_MS
              THEN {[client |-> FALSE, late |-> 1]} ELSE {})

\* const client = await getPoolClient(8000)
createLeadConnect(p, stage) ==
    /\ CanStart(p)
    /\ seqs.contacts + ContactIdsReserved < MaxContacts
    /\ seqs.leads + LeadIdsReserved < MaxLeads
    /\ \E r \in getPoolClient(AcquireTimeoutMs) :
         IF r.client
           THEN /\ pool.out < PoolMax
                /\ pool' = [pool EXCEPT !.out = @ + 1]
                /\ procs' = [procs EXCEPT ![p] = [IdleProc EXCEPT !.op = "createLead",
                                 !.pc = "begin", !.arg = stage, !.conn = TRUE,
                                 !.pre = Snapshot]]
                /\ last' = NoCall
           ELSE /\ ReturnAtOnce("createLead", 0, stage, "error", "connect_timeout")
                /\ pool' = [pool EXCEPT !.out = @ + r.late]
    /\ UNCHANGED <<contacts, leads, deals, team_tasks, notifications, seqs, limit, assigned>>
    /\ UnchangedLogs

\* await client.query('BEGIN')
createLeadBegin(p) ==
    /\ procs[p].op = "createLead" /\ procs[p].pc = "begin"
    /\ \E ok \in BOOLEAN :
         IF ok THEN procs' = [procs EXCEPT ![p].pc = "insertContact"]
               ELSE Caught(p, "begin_failed")
    /\ UNCHANGED <<contacts, leads, deals, team_tasks, notifications, seqs, pool, limit,
                   assigned, last>>
    /\ UnchangedLogs

\* const contact = await createContact(leadData.contact, client)
createLeadInsertContact(p) ==
    /\ procs[p].op = "createLead" /\ procs[p].pc = "insertContact"
    /\ \E ok \in BOOLEAN :
         IF ok
           THEN /\ seqs' = [seqs EXCEPT !.contacts = @ + 1]
                /\ procs' = [procs EXCEPT ![p].pc = "insertLead",
                                           ![p].cid = seqs.contacts + 1]
           ELSE /\ Caught(p, "contact_insert_failed")
                /\ UNCHANGED seqs
    /\ UNCHANGED <<contacts, leads, deals, team_tasks, notifications, pool, limit,
                   assigned, last>>
    /\ UnchangedLogs

\* INSERT INTO leads (... contact_id, ... stage, status ...) with contact.id,
\* leadData.stage || 'new', 'new'
createLeadInsertLead(p) ==
    /\ procs[p].op = "createLead" /\ procs[p].pc = "insertLead"
    /\ \E ok \in BOOLEAN :
         IF ok /\ StageLength(procs[p].arg) <= StageColumnWidth
           THEN /\ seqs' = [seqs EXCEPT !.leads = @ + 1]
                /\ procs' = [procs EXCEPT ![p].pc = "commit", ![p].lid = seqs.leads + 1]
           ELSE /\ Caught(p, IF ok THEN "value_too_long" ELSE "lead_insert_failed")
                /\ UNCHANGED seqs
    /\ UNCHANGED <<contacts, leads, deals, team_tasks, notifications, pool, limit,
                   assigned, last>>
    /\ UnchangedLogs

NewContactRow(p) ==
    [name |-> "a", is_client |-> FALSE, client_number |-> NoText, lead_id |-> NULL,
     deleted_at |-> NULL, tx |-> procs[p].cid]

\* a lead row that stores the lead's own key where the contact's key belongs
NewLeadRow_OwnKey(p) ==
    [contact_id |-> procs[p].lid,
     stage |-> CASE procs[p].arg = NULL -> "new" [] procs[p].arg = 4 -> "bogus"
                 [] OTHER -> "qualified",
     status |-> "new", tx |-> procs[p].cid]

NewLeadRow(p) ==
    [contact_id |-> procs[p].cid,
     stage |-> CASE procs[p].arg = NULL -> "new" [] procs[p].arg = 4 -> "bogus"
                 [] OTHER -> "qualified",
     status |-> "new", tx |-> procs[p].cid]

\* await client.query('COMMIT')
createLeadCommit(p) ==
    /\ procs[p].op = "createLead" /\ procs[p].pc = "commit"
    /\ \E ok \in BOOLEAN :
         IF ok
           THEN /\ contacts' = Insert(contacts, procs[p].cid, NewContactRow(p))
                /\ leads' = Insert(leads, procs[p].lid, NewLeadRow(p))
                /\ procs' = [procs EXCEPT ![p].pc = "release", ![p].res = "ok"]
           ELSE /\ Caught(p, "commit_failed")
                /\ UNCHANGED <<contacts, leads>>
    /\ UNCHANGED <<deals, team_tasks, notifications, seqs, pool, limit, assigned, last>>
    /\ UnchangedLogs

\* catch: await client.query('ROLLBACK'); throw error.  A ROLLBACK that
\* fails throws its own error out of the catch block; the server drops the
\* open transaction with the broken session.
createLeadRollback(p) ==
    /\ procs[p].op = "createLead" /\ procs[p].pc = "rollback"
    /\ \E ok \in BOOLEAN :
         procs' = [procs EXCEPT ![p].pc = "release", ![p].res = "error",
                       ![p].err = IF ok THEN procs[p].cause ELSE "rollback_failed"]
    /\ UNCHANGED <<contacts, leads, deals, team_tasks, notifications, seqs, pool, limit,
                   assigned, last>>
    /\ UnchangedLogs

\* a createLead that returns without handing its connection back
createLeadRelease_Kept(p) ==
    /\ procs[p].op = "createLead" /\ procs[p].pc = "release"
    /\ Return(p, procs[p].res, procs[p].err)
    /\ UNCHANGED <<contacts, leads, deals, team_tasks, notifications, seqs, pool, limit,
                   assigned>>
    /\ UnchangedLogs

\* finally: client.release()
createLeadRelease(p) ==
    /\ procs[p].op = "createLead" /\ procs[p].pc = "release"
    /\ pool' = [pool EXCEPT !.out = @ - 1]
    /\ Return(p, procs[p].res, procs[p].err)
    /\ UNCHANGED <<contacts, leads, deals, team_tasks, notifications, seqs, limit, assigned>>
    /\ UnchangedLogs

\* createLeadSchema.safeParse(body).success; the contact of a body is a
\* contact with a name (0), missing (1) or without a name (2)
validateCreateLead(body) ==
    body.contact = 0 /\ StageLength(body.stage) <= StageMaxLength

\* controller createLead: 400 on a body that fails validation, else the
\* service's createLead
createLead(p, body) ==
    IF validateCreateLead(body)
      THEN createLeadConnect(p, body.stage)
      ELSE /\ CanStart(p)
           /\ ReturnAtOnce("createLead", body.contact, body.stage, "error", "validation")
           /\ UNCHANGED <<contacts, leads, deals, team_tasks, notifications, seqs, pool,
                          limit, assigned>>
           /\ UnchangedLogs

\* the response the leads controller sends for the call recorded in last
createLeadResponse ==
    IF last.err = "validation" THEN [status |-> 400, success |-> FALSE, errors |-> TRUE]
    ELSE IF last.res = "ok" THEN [status |-> 201, success |-> TRUE, errors |-> FALSE]
    ELSE [status |-> 500, success |-> FALSE, errors |-> FALSE]

\* POST /leads requests, each running to its response
SpecLeadRoutes ==
    /\ Init
    /\ [][\E p \in Procs :
            \/ \E c \in 0..2, st \in 0..4 : createLead(p, [contact |-> c, stage |-> st])
            \/ createLeadBegin(p)
            \/ createLeadInsertContact(p)
            \/ createLeadInsertLead(p)
            \/ createLeadCommit(p)
            \/ createLeadRollback(p)
            \/ createLeadRelease(p)]_vars

\* const client = await getPoolClient(8000)
deleteLeadConnect(p, leadId) ==
    /\ CanStart(p)
    /\ \E r \in getPoolClient(AcquireTimeoutMs) :
         IF r.client
           THEN /\ pool.out < PoolMax
                /\ pool' = [pool EXCEPT !.out = @ + 1]
                /\ procs' = [procs EXCEPT ![p] = [IdleProc EXCEPT !.op = "deleteLead",
                                 !.pc = "begin", !.id = leadId, !.conn = TRUE,
                                 !.pre = Snapshot]]
                /\ last' = NoCall
           ELSE /\ ReturnAtOnce("deleteLead", leadId, 0, "error", "connect_timeout")
                /\ pool' = [pool EXCEPT !.out = @ + r.late]
    /\ UNCHANGED <<contacts, leads, deals, team_tasks, notifications, seqs, limit, assigned>>
    /\ UnchangedLogs

deleteLeadBegin(p) ==
    /\ procs[p].op = "deleteLead" /\ procs[p].pc = "begin"
    /\ \E ok \in BOOLEAN :
         IF ok THEN procs' = [procs EXCEPT ![p].pc = "check"]
               ELSE Caught(p, "begin_failed")
    /\ UNCHANGED <<contacts, leads, deals, team_tasks, notifications, seqs, pool, limit,
                   assigned, last>>
    /\ UnchangedLogs

\* SELECT id FROM leads WHERE id = $1; no row: ROLLBACK and return false
deleteLeadCheck(p) ==
    /\ procs[p].op = "deleteLead" /\ procs[p].pc = "check"
    /\ \E ok \in BOOLEAN :
         IF ~ok THEN Caught(p, "select_failed")
         ELSE IF procs[p].id \notin DOMAIN leads
           THEN procs' = [procs EXCEPT ![p].pc = "rollbackNotFound"]
         ELSE procs' = [procs EXCEPT ![p].pc = "delete"]
    /\ UNCHANGED <<contacts, leads, deals, team_tasks, notifications, seqs, pool, limit,
                   assigned, last>>
    /\ UnchangedLogs

\* the ROLLBACK of the not-found branch runs inside the try block
deleteLeadRollbackNotFound(p) ==
    /\ procs[p].op = "deleteLead" /\ procs[p].pc = "rollbackNotFound"
    /\ \E ok \in BOOLEAN :
         IF ok THEN procs' = [procs EXCEPT ![p].pc = "release", ![p].res = "false"]
               ELSE Caught(p, "rollback_failed")
    /\ UNCHANGED <<contacts, leads, deals, team_tasks, notifications, seqs, pool, limit,
                   assigned, last>>
    /\ UnchangedLogs

\* DELETE FROM leads WHERE id = $1: rejected while any row references the
\* lead; otherwise the row stays locked until the transaction ends
deleteLeadDelete(p) ==
    /\ procs[p].op = "deleteLead" /\ procs[p].pc = "delete"
    /\ ~LeadLocked(procs[p].id)
    /\ \E ok \in BOOLEAN :
         IF ~ok THEN Caught(p, "delete_failed")
         ELSE IF procs[p].id \in DOMAIN leads /\ LeadReferenced(procs[p].id)
           THEN Caught(p, "fk_violation")
         ELSE procs' = [procs EXCEPT ![p].pc = "commit",
                  ![p].res = IF procs[p].id \in DOMAIN leads THEN "true" ELSE "false"]
    /\ UNCHANGED <<contacts, leads, deals, team_tasks, notifications, seqs, pool, limit,
                   assigned, last>>
    /\ UnchangedLogs

\* notifications.related_lead_id ... ON DELETE SET NULL
SetNullLead(l) ==
    [i \in DOMAIN notifications |->
        IF notifications[i].related_lead_id = l
          THEN [notifications[i] EXCEPT !.related_lead_id = NULL]
          ELSE notifications[i]]

deleteLeadCommit(p) ==
    /\ procs[p].op = "deleteLead" /\ procs[p].pc = "commit"
    /\ \E ok \in BOOLEAN :
         IF ok
           THEN /\ leads' = Delete(leads, procs[p].id)
                /\ notifications' = SetNullLead(procs[p].id)
                /\ procs' = [procs EXCEPT ![p].pc = "release"]
           ELSE /\ Caught(p, "commit_failed")
                /\ UNCHANGED <<leads, notifications>>
    /\ UNCHANGED <<contacts, deals, team_tasks, seqs, pool, limit, assigned, last>>
    /\ UnchangedLogs

deleteLeadRollback(p) ==
    /\ procs[p].op = "deleteLead" /\ procs[p].pc = "rollback"
    /\ \E ok \in BOOLEAN :
         procs' = [procs EXCEPT ![p].pc = "release", ![p].res = "error",
                       ![p].err = IF ok THEN procs[p].cause ELSE "rollback_failed"]
    /\ UNCHANGED <<contacts, leads, deals, team_tasks, notifications, seqs, pool, limit,
                   assigned, last>>
    /\ UnchangedLogs

deleteLeadRelease(p) ==
    /\ procs[p].op = "deleteLead" /\ procs[p].pc = "release"
    /\ pool' = [pool EXCEPT !.out = @ - 1]
    /\ Return(p, procs[p].res, procs[p].err)
    /\ UNCHANGED <<contacts, leads, deals, team_tasks, notifications, seqs, limit, assigned>>
    /\ UnchangedLogs

(***************************************************************************)
(* The three timeline logs: addActivity, addColdCall, addOnsiteVisit are   *)
(* single INSERT statements.                                               *)
(***************************************************************************)
\* created_at values, in seconds, of the rows that carry one
CreatedAts ==
    {activities[i].created_at : i \in DOMAIN activities}
      \cup {cold_calls[i].created_at : i \in DOMAIN cold_calls}
      \cup {onsite_visits[i].created_at : i \in DOMAIN onsite_visits}
      \cup {team_tasks[i].created_at : i \in DOMAIN team_tasks}

Newest == IF CreatedAts = {} THEN 0 ELSE CHOOSE t \in CreatedAts : \A u \in CreatedAts : u <= t

\* NOW() / new Date(): the clock never runs backwards; two inserts may fall
\* into the same second
Now == {Newest, Newest + 1}

UnchangedButLogs ==
    UNCHANGED <<contacts, leads, deals, team_tasks, notifications, pool, limit, assigned>>

addActivity(leadId) ==
    /\ AllIdle
    /\ seqs.activities < MaxLogRows
    /\ seqs' = [seqs EXCEPT !.activities = @ + 1]
    /\ IF leadId \in DOMAIN leads
         THEN /\ \E t \in Now :
                   activities' = Insert(activities, seqs.activities + 1,
                      [lead_id |-> leadId, contact_id |-> NULL, activity_type |-> "note",
                       created_at |-> t])
              /\ ReturnAtOnce("addActivity", seqs.activities + 1, leadId, "ok", "none")
         ELSE /\ ReturnAtOnce("addActivity", 0, leadId, "error", "fk_violation")
              /\ UNCHANGED activities
    /\ UNCHANGED <<cold_calls, onsite_visits>>
    /\ UnchangedButLogs

addColdCall(leadId) ==
    /\ AllIdle
    /\ seqs.cold_calls < MaxLogRows
    /\ seqs' = [seqs EXCEPT !.cold_calls = @ + 1]
    /\ IF leadId \in DOMAIN leads
         THEN /\ \E t \in Now :
                   cold_calls' = Insert(cold_calls, seqs.cold_calls + 1,
                                        [lead_id |-> leadId, created_at |-> t])
              /\ ReturnAtOnce("addColdCall", seqs.cold_calls + 1, leadId, "ok", "none")
         ELSE /\ ReturnAtOnce("addColdCall", 0, leadId, "error", "fk_violation")
              /\ UNCHANGED cold_calls
    /\ UNCHANGED <<activities, onsite_visits>>
    /\ UnchangedButLogs

addOnsiteVisit(leadId) ==
    /\ AllIdle
    /\ seqs.onsite_visits < MaxLogRows
    /\ seqs' = [seqs EXCEPT !.onsite_visits = @ + 1]
    /\ IF leadId \in DOMAIN leads
         THEN /\ \E t \in Now :
                   onsite_visits' = Insert(onsite_visits, seqs.onsite_visits + 1,
                                           [lead_id |-> leadId, created_at |-> t])
              /\ ReturnAtOnce("addOnsiteVisit", seqs.onsite_visits + 1, leadId, "ok", "none")
         ELSE /\ ReturnAtOnce("addOnsiteVisit", 0, leadId, "error", "fk_violation")
              /\ UNCHANGED onsite_visits
    /\ UNCHANGED <<activities, cold_calls>>
    /\ UnchangedButLogs

(***************************************************************************)
(* Timestamps.  A TIMESTAMP column holds a wall-clock reading without      *)
(* zone (seconds); an instant is seconds since the epoch; the text of a    *)
(* TIMESTAMPTZ is a wall-clock reading with the offset it was taken at.    *)
(***************************************************************************)
\* (created_at AT TIME ZONE 'UTC'): the reading taken at offset off, as an instant
AtTimeZone(naive, off) == naive - off

\* the text PostgreSQL sends for a timestamptz in a session at offset off
TimestamptzText(instant, off) == [wall |-> instant + off, off |-> off]

\* pg's parser of timestamptz text, and new Date() of an ISO string
parseTimestamptz(text) == text.wall - text.off

\* pg's parser of a TIMESTAMP without zone: the reading is taken as local
\* time of the server process
parseTimestamp(naive) == naive - pool.process_tz

\* Date.prototype.toISOString: the reading at offset 0, written with 'Z'
toISOString(instant) == TimestamptzText(instant, 0)

\* SELECT (created_at AT TIME ZONE 'UTC')::timestamptz, read by pg into a
\* Date and written with toISOString
ReadAsUTC(naive) ==
    toISOString(parseTimestamptz(TimestamptzText(AtTimeZone(naive, 0), pool.session_tz)))

\* SELECT a.* and mapActivityRow: new Date(row.created_at).toISOString()
mapActivityRowCreatedAt(naive) == toISOString(parseTimestamp(naive))

Min(a, b) == IF a <= b THEN a ELSE b

\* ORDER BY created_at DESC LIMIT k over the rows S: every order the
\* database may return (rows of equal created_at come in any order)
OrderByCreatedAtDesc(S, k) ==
    {q \in [1..Min(k, Cardinality(S)) -> S] :
        /\ \A i, j \in DOMAIN q : i < j =>
              q[i] # q[j] /\ q[i].created_at >= q[j].created_at
        /\ \A e \in S \ {q[i] : i \in DOMAIN q} :
              \A i \in DOMAIN q : q[i].created_at >= e.created_at}

(***************************************************************************)
(* Reads of the logs: getLeadTimeline, getAllActivities.                   *)
(***************************************************************************)
\* the rows of log t whatever their lead
RowsForLead_AnyLead(t, leadId) ==
    {[id |-> i, lead_id |-> t[i].lead_id, created_at |-> t[i].created_at] :
        i \in DOMAIN t}

\* rows of log t for lead leadId, as selected
RowsForLead(t, leadId) ==
    {[id |-> i, lead_id |-> t[i].lead_id, created_at |-> t[i].created_at] :
        i \in {j \in DOMAIN t : t[j].lead_id = leadId}}

\* rows.map(row => ({..., created_at: row.created_at.toISOString()}))
MapCreatedAt(q) == [i \in DOMAIN q |-> [q[i] EXCEPT !.created_at = ReadAsUTC(@)]]

ReturnList(op, id, out) ==
    last' = [op |-> op, id |-> id, arg |-> 0, res |-> "ok", err |-> "none",
             cause |-> "none", cid |-> 0, lid |-> 0, num |-> NoText, pre |-> Snapshot,
             out |-> out]

UnchangedByRead ==
    UNCHANGED <<contacts, leads, activities, cold_calls, onsite_visits, deals, team_tasks,
                notifications, seqs, pool, procs, limit, assigned>>

getLeadTimeline(leadId) ==
    /\ AllIdle
    /\ \E qa \in OrderByCreatedAtDesc(RowsForLead(activities, leadId),
                                       Cardinality(DOMAIN activities)),
          qc \in OrderByCreatedAtDesc(RowsForLead(cold_calls, leadId),
                                       Cardinality(DOMAIN cold_calls)),
          qv \in OrderByCreatedAtDesc(RowsForLead(onsite_visits, leadId),
                                       Cardinality(DOMAIN onsite_visits)) :
          ReturnList("getLeadTimeline", leadId,
                     [activities |-> MapCreatedAt(qa), coldCalls |-> MapCreatedAt(qc),
                      onsiteVisits |-> MapCreatedAt(qv)])
    /\ UnchangedByRead

\* every row of activities, as getAllActivities selects it
AllActivityRows ==
    {[id |-> i, lead_id |-> activities[i].lead_id,
      created_at |-> activities[i].created_at] : i \in DOMAIN activities}

getAllActivities ==
    /\ AllIdle
    /\ \E q \in OrderByCreatedAtDesc(AllActivityRows, Cardinality(DOMAIN activities)) :
          ReturnList("getAllActivities", 0,
                     [i \in DOMAIN q |->
                        [q[i] EXCEPT !.created_at = mapActivityRowCreatedAt(@)]])
    /\ UnchangedByRead

(***************************************************************************)
(* The lead and client services, one request at a time.                    *)
(***************************************************************************)
LeadIdArgs == 1..MaxLeads
ContactIdArgs == 1..MaxContacts

LeadSteps(p) ==
    \/ \E stage \in {0, 1} : createLeadConnect(p, stage)
    \/ createLeadBegin(p)
    \/ createLeadInsertContact(p)
    \/ createLeadInsertLead(p)
    \/ createLeadCommit(p)
    \/ createLeadRollback(p)
    \/ createLeadRelease(p)
    \/ \E l \in LeadIdArgs : deleteLeadConnect(p, l)
    \/ deleteLeadBegin(p)
    \/ deleteLeadCheck(p)
    \/ deleteLeadRollbackNotFound(p)
    \/ deleteLeadDelete(p)
    \/ deleteLeadCommit(p)
    \/ deleteLeadRollback(p)
    \/ deleteLeadRelease(p)

ClientSteps(p) ==
    \/ \E l \in {NULL} \cup LeadIdArgs : createClientGenerate(p, l)
    \/ createClientInsert(p)
    \/ \E c \in ContactIdArgs, n \in {"undefined", "b"} : updateClientUpdate(p, c, n)
    \/ updateClientRead(p)
    \/ \E c \in ContactIdArgs : deleteClientCheck(p, c)
    \/ deleteClientUpdate(p)
    \/ \E c \in ContactIdArgs : restoreClientCheck(p, c)
    \/ restoreClientUpdate(p)
    \/ \E c \in ContactIdArgs : permanentDeleteClientCheck(p, c)
    \/ permanentDeleteClientDelete(p)

LogSteps ==
    \/ \E l \in LeadIdArgs : addActivity(l)
    \/ \E l \in LeadIdArgs : addColdCall(l)
    \/ \E l \in LeadIdArgs : addOnsiteVisit(l)

Next ==
    \/ \E p \in Procs : LeadSteps(p)
    \/ \E p \in Procs : ClientSteps(p)

Spec == Init /\ [][Next]_vars

NextLead == (\E p \in Procs : LeadSteps(p)) \/ LogSteps
SpecLead == Init /\ [][NextLead]_vars

\* createLead and deleteLead one at a time; a call that holds a connection
\* goes on to its next awaited step (the event loop resumes it)
SpecLeadFair ==
    /\ Init
    /\ [][\E p \in Procs : LeadSteps(p)]_vars
    /\ \A p \in Procs :
          WF_vars(\/ createLeadBegin(p) \/ createLeadInsertContact(p)
                  \/ createLeadInsertLead(p) \/ createLeadCommit(p)
                  \/ createLeadRollback(p) \/ createLeadRelease(p)
                  \/ deleteLeadBegin(p) \/ deleteLeadCheck(p)
                  \/ deleteLeadRollbackNotFound(p) \/ deleteLeadDelete(p)
                  \/ deleteLeadCommit(p) \/ deleteLeadRollback(p)
                  \/ deleteLeadRelease(p))
NextClient == \E p \in Procs : ClientSteps(p)
SpecClient == Init /\ [][NextClient]_vars
InitConc == InitTables /\ limit = NProcs
SpecLeadConc == InitConc /\ [][\E p \in Procs : LeadSteps(p)]_vars
ClientStepsConc(p) ==
    \/ createClientGenerate(p, NULL)
    \/ createClientInsert(p)
    \/ \E c \in ContactIdArgs : deleteClientCheck(p, c)
    \/ deleteClientUpdate(p)
    \/ \E c \in ContactIdArgs : restoreClientCheck(p, c)
    \/ restoreClientUpdate(p)
    \/ \E c \in ContactIdArgs : permanentDeleteClientCheck(p, c)
    \/ permanentDeleteClientDelete(p)
NextClientConc == \E p \in Procs : ClientStepsConc(p)
SpecClientConc == InitConc /\ [][NextClientConc]_vars

(***************************************************************************)
(* clients service reads, and the clients controller in front of           *)
(* deleteClient, restoreClient and permanentDeleteClient.                  *)
(***************************************************************************)
\* a listing of every client, trashed or not
ListedClients_AnyClient(trashed) == {i \in DOMAIN contacts : contacts[i].is_client}

\* WHERE c.is_client = true AND c.deleted_at IS [NOT] NULL ... GROUP BY c.id
ListedClients(trashed) ==
    {i \in DOMAIN contacts :
        contacts[i].is_client /\ ((contacts[i].deleted_at # NULL) = trashed)}

\* result.rows.map(mapClientRow), each row with its key
ClientRows(ids) ==
    {[id |-> i, is_client |-> contacts[i].is_client,
      client_number |-> contacts[i].client_number,
      deleted_at |-> contacts[i].deleted_at] : i \in ids}

getAllClients ==
    /\ AllIdle
    /\ ReturnList("getAllClients", 0, [rows |-> ClientRows(ListedClients(FALSE))])
    /\ UnchangedByRead

getDeletedClients ==
    /\ AllIdle
    /\ ReturnList("getDeletedClients", 0, [rows |-> ClientRows(ListedClients(TRUE))])
    /\ UnchangedByRead

\* the service call getClientById(id) on its own; no rows stands for null
getClientByIdCall(id) ==
    /\ AllIdle
    /\ ReturnList("getClientById", id,
                  [rows |-> ClientRows(IF getClientById(id) THEN {id} ELSE {})])
    /\ UnchangedByRead

\* controller deleteClient: 404 unless getClientById finds the client, then
\* the service's deleteClient
deleteClient(p, id) ==
    IF getClientById(id)
      THEN deleteClientCheck(p, id)
      ELSE /\ CanStart(p)
           /\ ReturnAtOnce("deleteClient", id, 0, "null", "not_found")
           /\ UNCHANGED <<contacts, seqs, assigned>>
           /\ UnchangedButContacts

\* the response the clients controller sends for the call recorded in last
ClientResponse ==
    IF last.op = "deleteClient" /\ last.err = "not_found"
      THEN [status |-> 404, success |-> FALSE]
    ELSE IF last.res = "false" THEN [status |-> 400, success |-> FALSE]
    ELSE IF last.res = "true" THEN [status |-> 200, success |-> TRUE]
    ELSE IF last.op = "permanentDeleteClient" /\ last.err = "fk_violation"
      THEN [status |-> 400, success |-> FALSE]
    ELSE [status |-> 500, success |-> FALSE]

\* the requests of the clients routes
SpecClientRoutes ==
    /\ Init
    /\ [][\E p \in Procs :
            \/ createClientGenerate(p, NULL)
            \/ createClientInsert(p)
            \/ \E c \in ContactIdArgs : deleteClient(p, c)
            \/ deleteClientUpdate(p)
            \/ \E c \in ContactIdArgs : restoreClientCheck(p, c)
            \/ restoreClientUpdate(p)
            \/ \E c \in ContactIdArgs : permanentDeleteClientCheck(p, c)
            \/ permanentDeleteClientDelete(p)
            \/ getAllClients
            \/ getDeletedClients
            \/ \E c \in ContactIdArgs : getClientByIdCall(c)]_vars

(***************************************************************************)
(* tasks service: createTask, updateTaskStatus, updateTask, with the       *)
(* activity and notification they write on the side.  A side-effect query  *)
(* may fail (actOk, markOk, notifOk); the code catches and logs it.        *)
(***************************************************************************)
VALID_STATUS == {"open", "in_progress", "done"}

UnchangedButTasks ==
    UNCHANGED <<contacts, leads, cold_calls, onsite_visits, deals, pool, procs, limit,
                assigned>>

\* notificationsService.createNotification
createNotification(t, id, userEmail, type, relatedTaskId, relatedLeadId) ==
    Insert(t, id, [user_email |-> userEmail, type |-> type,
                   related_task_id |-> relatedTaskId, related_lead_id |-> relatedLeadId,
                   is_read |-> FALSE])

\* the activity row createTask writes: for the lead, else for the lead the
\* client was converted from, else for the contact
TaskActivityRow(leadId, clientId, t) ==
    IF leadId # NULL
      THEN [lead_id |-> leadId, contact_id |-> NULL, activity_type |-> "task",
            created_at |-> t]
    ELSE IF /\ clientId \in DOMAIN contacts
            /\ contacts[clientId].is_client
            /\ contacts[clientId].lead_id # NULL
      THEN [lead_id |-> contacts[clientId].lead_id, contact_id |-> NULL,
            activity_type |-> "task", created_at |-> t]
    ELSE [lead_id |-> NULL, contact_id |-> clientId, activity_type |-> "task",
          created_at |-> t]

\* a validation that only rejects a task with neither a lead nor a client
createTaskRejects_NeitherOnly(leadId, clientId) == leadId = NULL /\ clientId = NULL

\* the two validation throws at the head of createTask
createTaskRejects(leadId, clientId) ==
    \/ leadId = NULL /\ clientId = NULL
    \/ leadId # NULL /\ clientId # NULL

\* a team_tasks table without its two foreign keys
TaskFkOk_NoConstraint(leadId, clientId) == TRUE

\* team_tasks.lead_id REFERENCES leads(id), team_tasks.client_id REFERENCES contacts(id)
TaskFkOk(leadId, clientId) ==
    /\ leadId = NULL \/ leadId \in DOMAIN leads
    /\ clientId = NULL \/ clientId \in DOMAIN contacts

\* side effects whose failure leaves the call as an exception
SideEffectThrows_Uncaught(ok1, ok2) == ~(ok1 /\ ok2)

\* try { side effect } catch (error) { console.error(...) }: whether the
\* failure of a side effect of createTask or updateTask leaves the call
SideEffectThrows(ok1, ok2) == FALSE

createTask(leadId, clientId, email, actOk, notifOk) ==
    /\ AllIdle
    /\ seqs.team_tasks < MaxTasks
    /\ seqs.notifications < MaxNotifications
    /\ LET id == seqs.team_tasks + 1
           aid == seqs.activities + 1
           nid == seqs.notifications + 1
       IN  IF createTaskRejects(leadId, clientId)
             THEN /\ ReturnAtOnce("createTask", leadId, clientId, "error", "validation")
                  /\ UNCHANGED <<team_tasks, activities, notifications, seqs>>
           ELSE IF ~TaskFkOk(leadId, clientId)
             THEN /\ ReturnAtOnce("createTask", leadId, clientId, "error", "fk_violation")
                  /\ seqs' = [seqs EXCEPT !.team_tasks = id]
                  /\ UNCHANGED <<team_tasks, activities, notifications>>
           ELSE /\ \E t \in Now :
                     /\ team_tasks' = Insert(team_tasks, id,
                           [lead_id |-> leadId, client_id |-> clientId,
                            assigned_to_email |-> email, status |-> "open",
                            created_at |-> t])
                     /\ activities' = IF actOk
                                        THEN Insert(activities, aid,
                                                    TaskActivityRow(leadId, clientId, t))
                                        ELSE activities
                /\ notifications' = IF notifOk
                                      THEN createNotification(notifications, nid, email,
                                               "task_assigned", id, leadId)
                                      ELSE notifications
                /\ seqs' = [seqs EXCEPT !.team_tasks = id,
                                        !.activities = IF actOk THEN aid ELSE @,
                                        !.notifications = IF notifOk THEN nid ELSE @]
                /\ IF SideEffectThrows(actOk, notifOk)
                     THEN ReturnAtOnce("createTask", leadId, clientId, "error", "side_effect")
                     ELSE ReturnAtOnce("createTask", leadId, clientId, "ok", "none")
    /\ UnchangedButTasks

updateTaskStatus(taskId, status) ==
    /\ AllIdle
    /\ IF status \notin VALID_STATUS
         THEN /\ ReturnAtOnce("updateTaskStatus", taskId, 0, "error", "validation")
              /\ UNCHANGED team_tasks
       ELSE IF taskId \notin DOMAIN team_tasks
         THEN /\ ReturnAtOnce("updateTaskStatus", taskId, 0, "error", "not_found")
              /\ UNCHANGED team_tasks
       ELSE /\ team_tasks' = [team_tasks EXCEPT ![taskId].status = status]
            /\ ReturnAtOnce("updateTaskStatus", taskId, 0, "ok", "none")
    /\ UNCHANGED <<activities, notifications, seqs>>
    /\ UnchangedButTasks

\* an update that marks no notification
MarkTaskNotificationsRead_None(t, taskId, email) == t

\* UPDATE notifications SET is_read = true WHERE related_task_id = $1 AND
\* user_email = $2 AND is_read = false AND type IN ('task_assigned', 'task_updated')
MarkTaskNotificationsRead(t, taskId, email) ==
    [i \in DOMAIN t |->
        IF /\ t[i].related_task_id = taskId
           /\ t[i].user_email = email
           /\ ~t[i].is_read
           /\ t[i].type \in {"task_assigned", "task_updated"}
          THEN [t[i] EXCEPT !.is_read = TRUE]
          ELSE t[i]]

\* the lead the update notification points to: the task's, else the client's
TaskLeadId(task) ==
    IF task.lead_id # NULL THEN task.lead_id
    ELSE IF /\ task.client_id \in DOMAIN contacts
            /\ contacts[task.client_id].is_client
      THEN contacts[task.client_id].lead_id
    ELSE NULL

\* updateTask with the fields assignedToEmail and status ("undefined": not given)
updateTask(taskId, email, status, markOk, notifOk) ==
    /\ AllIdle
    /\ seqs.notifications < MaxNotifications
    /\ IF status # "undefined" /\ status \notin VALID_STATUS
         THEN /\ ReturnAtOnce("updateTask", taskId, 0, "error", "validation")
              /\ UNCHANGED <<team_tasks, notifications, seqs>>
       ELSE IF email = "undefined" /\ status = "undefined"
         THEN /\ ReturnAtOnce("updateTask", taskId, 0, "error", "no_fields")
              /\ UNCHANGED <<team_tasks, notifications, seqs>>
       ELSE IF taskId \notin DOMAIN team_tasks
         THEN /\ ReturnAtOnce("updateTask", taskId, 0, "error", "not_found")
              /\ UNCHANGED <<team_tasks, notifications, seqs>>
       ELSE LET task == [team_tasks[taskId] EXCEPT
                            !.assigned_to_email = IF email = "undefined" THEN @ ELSE email,
                            !.status = IF status = "undefined" THEN @ ELSE status]
                assignee == task.assigned_to_email
                marked == IF markOk
                            THEN MarkTaskNotificationsRead(notifications, taskId, assignee)
                            ELSE notifications
                nid == seqs.notifications + 1
            IN  /\ team_tasks' = [team_tasks EXCEPT ![taskId] = task]
                /\ notifications' = IF notifOk
                                      THEN createNotification(marked, nid, assignee,
                                               "task_updated", taskId, TaskLeadId(task))
                                      ELSE marked
                /\ seqs' = [seqs EXCEPT !.notifications = IF notifOk THEN nid ELSE @]
                /\ IF SideEffectThrows(markOk, notifOk)
                     THEN ReturnAtOnce("updateTask", taskId, 0, "error", "side_effect")
                     ELSE ReturnAtOnce("updateTask", taskId, 0, "ok", "none")
    /\ UNCHANGED activities
    /\ UnchangedButTasks

\* The database the task and deal requests start from: lead 1 with its
\* contact 1, client 2 converted from lead 1, client 3 created directly.
SeedContacts ==
    <<[name |-> "a", is_client |-> FALSE, client_number |-> NoText, lead_id |-> NULL,
       deleted_at |-> NULL, tx |-> 1],
      [name |-> "a", is_client |-> TRUE, client_number |-> FormatClientNumber(1),
       lead_id |-> 1, deleted_at |-> NULL, tx |-> 0],
      [name |-> "a", is_client |-> TRUE, client_number |-> FormatClientNumber(2),
       lead_id |-> NULL, deleted_at |-> NULL, tx |-> 0]>>

SeedLeads == <<[contact_id |-> 1, stage |-> "new", status |-> "new", tx |-> 1]>>

InitSeeded ==
    /\ contacts = SeedContacts
    /\ leads = SeedLeads
    /\ activities = EmptyTable
    /\ cold_calls = EmptyTable
    /\ onsite_visits = EmptyTable
    /\ deals = EmptyTable
    /\ team_tasks = EmptyTable
    /\ notifications = EmptyTable
    /\ seqs = [contacts |-> 3, leads |-> 1, activities |-> 0, cold_calls |-> 0,
               onsite_visits |-> 0, deals |-> 0, team_tasks |-> 0, notifications |-> 0]
    /\ pool = [out |-> 0, session_tz |-> 0, process_tz |-> 0]
    /\ procs = [p \in Procs |-> IdleProc]
    /\ assigned = <<FormatClientNumber(1), FormatClientNumber(2)>>
    /\ last = NoCall
    /\ limit = 1

TaskLeadArgs == {NULL, 1, 2}        \* 2 names no lead
TaskClientArgs == {NULL, 2, 3, 4}   \* 4 names no contact
Emails == {"u1", "u2"}
TaskIdArgs == 1..MaxTasks

NextTask ==
    \/ \E l \in TaskLeadArgs, c \in TaskClientArgs, e \in Emails, a, n \in BOOLEAN :
          createTask(l, c, e, a, n)
    \/ \E t \in TaskIdArgs, st \in VALID_STATUS \cup {"bogus"} : updateTaskStatus(t, st)
    \/ \E t \in TaskIdArgs, e \in Emails \cup {"undefined"},
          st \in {"undefined", "done", "bogus"}, m, n \in BOOLEAN :
          updateTask(t, e, st, m, n)

SpecTask == InitSeeded /\ [][NextTask]_vars

\* the same requests when every side-effect query succeeds
SpecTaskAllOk ==
    /\ InitSeeded
    /\ [][\/ \E l \in TaskLeadArgs, c \in TaskClientArgs, e \in Emails :
                createTask(l, c, e, TRUE, TRUE)
          \/ \E t \in TaskIdArgs, st \in VALID_STATUS \cup {"bogus"} : updateTaskStatus(t, st)
          \/ \E t \in TaskIdArgs, e \in Emails \cup {"undefined"},
                st \in {"undefined", "done", "bogus"} :
                updateTask(t, e, st, TRUE, TRUE)]_vars

\* updateTask as the awaited queries it consists of, for overlapping requests.
\* The call keeps the row its UPDATE returned: the assignee (res) and the
\* lead id (lid) are those of that row also when another call writes later.
\* UPDATE team_tasks SET ... WHERE id RETURNING *
updateTaskUpdate(p, taskId, email, status) ==
    /\ CanStart(p)
    /\ IF status # "undefined" /\ status \notin VALID_STATUS
         THEN /\ ReturnAtOnce("updateTask", taskId, 0, "error", "validation")
              /\ UNCHANGED team_tasks
       ELSE IF email = "undefined" /\ status = "undefined"
         THEN /\ ReturnAtOnce("updateTask", taskId, 0, "error", "no_fields")
              /\ UNCHANGED team_tasks
       ELSE IF taskId \notin DOMAIN team_tasks
         THEN /\ ReturnAtOnce("updateTask", taskId, 0, "error", "not_found")
              /\ UNCHANGED team_tasks
       ELSE LET task == [team_tasks[taskId] EXCEPT
                            !.assigned_to_email = IF email = "undefined" THEN @ ELSE email,
                            !.status = IF status = "undefined" THEN @ ELSE status]
            IN  /\ team_tasks' = [team_tasks EXCEPT ![taskId] = task]
                /\ procs' = [procs EXCEPT ![p] =
                                [IdleProc EXCEPT !.op = "updateTask", !.pc = "mark",
                                                 !.id = taskId,
                                                 !.res = task.assigned_to_email,
                                                 !.lid = TaskLeadId(task)]]
                /\ last' = NoCall
    /\ UNCHANGED <<contacts, leads, activities, cold_calls, onsite_visits, deals,
                   notifications, seqs, pool, limit, assigned>>

\* UPDATE notifications SET is_read = true WHERE related_task_id AND user_email
\* AND is_read = false AND type IN (...); a failure is logged and ignored
updateTaskMarkRead(p, ok) ==
    /\ procs[p].op = "updateTask" /\ procs[p].pc = "mark"
    /\ notifications' = IF ok
                          THEN MarkTaskNotificationsRead(notifications, procs[p].id,
                                                         procs[p].res)
                          ELSE notifications
    /\ procs' = [procs EXCEPT ![p].pc = "notify"]
    /\ UNCHANGED <<contacts, leads, activities, cold_calls, onsite_visits, deals,
                   team_tasks, seqs, pool, limit, assigned, last>>

\* createNotification({type: 'task_updated', ...}); return task
updateTaskNotify(p, ok) ==
    /\ procs[p].op = "updateTask" /\ procs[p].pc = "notify"
    /\ seqs.notifications < MaxNotifications
    /\ LET nid == seqs.notifications + 1
       IN  /\ notifications' = IF ok
                                 THEN createNotification(notifications, nid, procs[p].res,
                                          "task_updated", procs[p].id, procs[p].lid)
                                 ELSE notifications
           /\ seqs' = [seqs EXCEPT !.notifications = IF ok THEN nid ELSE @]
    /\ procs' = [procs EXCEPT ![p] = IdleProc]
    /\ last' = [NoCall EXCEPT !.op = "updateTask", !.id = procs[p].id, !.res = "ok"]
    /\ UNCHANGED <<contacts, leads, activities, cold_calls, onsite_visits, deals,
                   team_tasks, pool, limit, assigned>>

\* overlapping updateTask requests on a stored task, no side effect failing
SpecTaskConc ==
    /\ contacts = SeedContacts
    /\ leads = SeedLeads
    /\ activities = EmptyTable
    /\ cold_calls = EmptyTable
    /\ onsite_visits = EmptyTable
    /\ deals = EmptyTable
    /\ team_tasks = <<[lead_id |-> 1, client_id |-> NULL, assigned_to_email |-> "u1",
                       status |-> "open", created_at |-> 0]>>
    /\ notifications = EmptyTable
    /\ seqs = [contacts |-> 3, leads |-> 1, activities |-> 0, cold_calls |-> 0,
               onsite_visits |-> 0, deals |-> 0, team_tasks |-> 1, notifications |-> 0]
    /\ pool = [out |-> 0, session_tz |-> 0, process_tz |-> 0]
    /\ procs = [p \in Procs |-> IdleProc]
    /\ assigned = <<FormatClientNumber(1), FormatClientNumber(2)>>
    /\ last = NoCall
    /\ limit = NProcs
    /\ [][\E p \in Procs :
            \/ \E t \in TaskIdArgs \cup {MaxTasks + 1}, e \in Emails \cup {"undefined"},
                  st \in {"undefined", "done", "bogus"} : updateTaskUpdate(p, t, e, st)
            \/ updateTaskMarkRead(p, TRUE)
            \/ updateTaskNotify(p, TRUE)]_vars

(***************************************************************************)
(* deals service: createDealFromLead, moveDealToStage, deleteDeal.         *)
(***************************************************************************)
StrNew == <<110, 101, 119>>
StrQualified == <<113, 117, 97, 108, 105, 102, 105, 101, 100>>
StrProposal == <<112, 114, 111, 112, 111, 115, 97, 108>>
StrNegotiation == <<110, 101, 103, 111, 116, 105, 97, 116, 105, 111, 110>>
StrClosed == <<99, 108, 111, 115, 101, 100>>
VALID_STAGES == {StrNew, StrQualified, StrProposal, StrNegotiation, StrClosed}

UnchangedButDeals ==
    UNCHANGED <<contacts, leads, activities, cold_calls, onsite_visits, team_tasks,
                notifications, pool, limit, assigned>>

\* createDealFromLead, first query: SELECT id FROM leads WHERE id = $1
createDealFromLeadCheck(p, leadId) ==
    /\ CanStart(p)
    /\ seqs.deals + Cardinality({q \in Procs : procs[q].op = "createDealFromLead"})
          < MaxDeals
    /\ IF leadId \notin DOMAIN leads
         THEN ReturnAtOnce("createDealFromLead", leadId, 0, "error", "not_found")
         ELSE Begin(p, "createDealFromLead", "insert", leadId, 0)
    /\ UNCHANGED <<deals, seqs>>
    /\ UnchangedButDeals

\* createDealFromLead, last query: INSERT INTO deals (lead_id, ..., stage) ... 'new'
createDealFromLeadInsert(p) ==
    /\ procs[p].op = "createDealFromLead" /\ procs[p].pc = "insert"
    /\ ~LeadLocked(procs[p].id)
    /\ seqs' = [seqs EXCEPT !.deals = @ + 1]
    /\ IF procs[p].id \in DOMAIN leads
         THEN /\ deals' = Insert(deals, seqs.deals + 1,
                                 [lead_id |-> procs[p].id, stage |-> StrNew])
              /\ Return(p, "ok", "none")
         ELSE /\ Return(p, "error", "fk_violation")
              /\ UNCHANGED deals
    /\ UnchangedButDeals

\* moveDealToStage returns; the record keeps the stage text it was called with
ReturnStage(dealId, stage, res, err) ==
    last' = [op |-> "moveDealToStage", id |-> dealId, arg |-> 0, res |-> res,
             err |-> err, cause |-> err, cid |-> 0, lid |-> 0, num |-> stage,
             pre |-> Snapshot, out |-> NoOut]

moveDealToStage(dealId, stage) ==
    /\ AllIdle
    /\ LET normalizedStage == toLowerCase(stage)
       IN  IF normalizedStage \notin VALID_STAGES
             THEN /\ ReturnStage(dealId, stage, "error", "invalid_stage")
                  /\ UNCHANGED deals
           ELSE IF dealId \notin DOMAIN deals
             THEN /\ ReturnStage(dealId, stage, "error", "not_found")
                  /\ UNCHANGED deals
           ELSE /\ deals' = [deals EXCEPT ![dealId].stage = normalizedStage]
                /\ ReturnStage(dealId, stage, "ok", "none")
    /\ UNCHANGED <<seqs, procs>>
    /\ UnchangedButDeals

deleteDeal(dealId) ==
    /\ AllIdle
    /\ deals' = IF dealId \in DOMAIN deals THEN Delete(deals, dealId) ELSE deals
    /\ ReturnAtOnce("deleteDeal", dealId, 0,
                    IF dealId \in DOMAIN deals THEN "true" ELSE "false", "none")
    /\ UNCHANGED <<seqs>>
    /\ UnchangedButDeals

(***************************************************************************)
(* deals controller: POST /deals.                                          *)
(***************************************************************************)
\* createDealSchema: leadId is z.number().int().positive()
validateCreateDeal(leadId) == leadId > 0

\* error.message.includes('does not exist'), on a message that never says so
IncludesDoesNotExist_Never(err) == FALSE

\* error.message.includes('does not exist'): true of the service's not-found
\* errors, false of a driver error such as a foreign-key violation
IncludesDoesNotExist(err) == err = "not_found"

\* createDeal: validate the body, then call createDealFromLead
createDeal(p, leadId) ==
    IF validateCreateDeal(leadId)
      THEN createDealFromLeadCheck(p, leadId)
      ELSE /\ CanStart(p)
           /\ ReturnAtOnce("createDeal", leadId, 0, "error", "validation")
           /\ UNCHANGED <<deals, seqs>>
           /\ UnchangedButDeals

\* the response createDeal sends for the call recorded in last
createDealResponse ==
    IF last.err = "validation" THEN [status |-> 400, success |-> FALSE]
    ELSE IF last.res = "ok" THEN [status |-> 201, success |-> TRUE]
    ELSE IF IncludesDoesNotExist(last.err) THEN [status |-> 404, success |-> FALSE]
    ELSE [status |-> 500, success |-> FALSE]

\* leadId values a POST /deals body may carry
BodyLeadIdArgs == {-1, 0} \cup LeadIdArgs

\* stage values a request may carry: NEW, Qualified, proposal, NEGOTIATION,
\* cLoSeD, new, bogus, BOGUS, the empty string, "new " with a trailing blank
StageArgs ==
    {<<78, 69, 87>>,
     <<81, 117, 97, 108, 105, 102, 105, 101, 100>>,
     StrProposal,
     <<78, 69, 71, 79, 84, 73, 65, 84, 73, 79, 78>>,
     <<99, 76, 111, 83, 101, 68>>,
     StrNew,
     <<98, 111, 103, 117, 115>>,
     <<66, 79, 71, 85, 83>>,
     << >>,
     <<110, 101, 119, 32>>}

DealIdArgs == 1..MaxDeals

NextDeal ==
    \/ \E p \in Procs, l \in BodyLeadIdArgs : createDeal(p, l)
    \/ \E p \in Procs : createDealFromLeadInsert(p)
    \/ \E d \in DealIdArgs, st \in StageArgs : moveDealToStage(d, st)
    \/ \E d \in DealIdArgs : deleteDeal(d)

SpecDeal == InitSeeded /\ [][NextDeal]_vars

\* Overlapping createDealFromLead, createClient and deleteLead requests on a
\* database that holds lead 1 with its contact 1 and nothing else.
SpecRefs ==
    /\ contacts = <<SeedContacts[1]>>
    /\ leads = SeedLeads
    /\ activities = EmptyTable /\ cold_calls = EmptyTable /\ onsite_visits = EmptyTable
    /\ deals = EmptyTable /\ team_tasks = EmptyTable /\ notifications = EmptyTable
    /\ seqs = [contacts |-> 1, leads |-> 1, activities |-> 0, cold_calls |-> 0,
               onsite_visits |-> 0, deals |-> 0, team_tasks |-> 0, notifications |-> 0]
    /\ pool = [out |-> 0, session_tz |-> 0, process_tz |-> 0]
    /\ procs = [p \in Procs |-> IdleProc]
    /\ assigned = << >>
    /\ last = NoCall
    /\ limit = NProcs
    /\ [][\E p \in Procs :
            \/ \E l \in LeadIdArgs : createDealFromLeadCheck(p, l)
            \/ createDealFromLeadInsert(p)
            \/ \E l \in {NULL} \cup LeadIdArgs : createClientGenerate(p, l)
            \/ createClientInsert(p)
            \/ \E l \in LeadIdArgs : deleteLeadConnect(p, l)
            \/ deleteLeadBegin(p)
            \/ deleteLeadCheck(p)
            \/ deleteLeadRollbackNotFound(p)
            \/ deleteLeadDelete(p)
            \/ deleteLeadCommit(p)
            \/ deleteLeadRollback(p)
            \/ deleteLeadRelease(p)]_vars

(***************************************************************************)
(* dashboard service: the recentActivities feed of getDashboardSummary.    *)
(* A feed entry keeps, next to the selected columns, the key of the log    *)
(* row (id) and of the joined task (task) it was read from.                *)
(***************************************************************************)
JoinWindow == 5

\* LEFT JOIN team_tasks tt ON a.activity_type = 'task' AND a.lead_id = tt.lead_id
\*   AND ABS(EXTRACT(EPOCH FROM (a.created_at - tt.created_at))) < 5
JoinedTasks(i) ==
    {t \in DOMAIN team_tasks :
        /\ activities[i].activity_type = "task"
        /\ activities[i].lead_id # NULL
        /\ activities[i].lead_id = team_tasks[t].lead_id
        /\ LET d == activities[i].created_at - team_tasks[t].created_at
           IN  (IF d < 0 THEN 0 - d ELSE d) < JoinWindow}

FeedRow(source, id, task, leadId, type, createdAt, email) ==
    [source_type |-> source, id |-> id, task |-> task, lead_id |-> leadId,
     activity_type |-> type, created_at |-> createdAt, assigned_to_email |-> email]

\* the rows of recentActivitiesQuery before ORDER BY and LIMIT: one row per
\* activity and joined task, one row for an activity that joins no task
RecentActivityRows ==
    UNION {IF JoinedTasks(i) = {}
             THEN {FeedRow("activity", i, NULL, activities[i].lead_id,
                           activities[i].activity_type, activities[i].created_at, "null")}
             ELSE {FeedRow("activity", i, t, activities[i].lead_id,
                           activities[i].activity_type, activities[i].created_at,
                           team_tasks[t].assigned_to_email) : t \in JoinedTasks(i)} :
           i \in DOMAIN activities}

RecentColdCallRows ==
    {FeedRow("cold_call", i, NULL, cold_calls[i].lead_id, "cold_call",
             cold_calls[i].created_at, "null") : i \in DOMAIN cold_calls}

RecentOnsiteVisitRows ==
    {FeedRow("onsite_visit", i, NULL, onsite_visits[i].lead_id, "onsite_visit",
             onsite_visits[i].created_at, "null") : i \in DOMAIN onsite_visits}

\* new Date(x.created_at).getTime()
getTime(item) == parseTimestamptz(item.created_at)

\* a feed that is cut without being sorted
SortNewestFirst_AsGiven(q) == q

\* allRecentItems.sort((a, b) => getTime(b) - getTime(a)): newest first,
\* items of equal time keep their order (the sort is stable)
RECURSIVE SortNewestFirst(_)
SortNewestFirst(q) ==
    IF q = << >> THEN << >>
    ELSE LET i == CHOOSE i \in DOMAIN q :
                    /\ \A j \in DOMAIN q : getTime(q[i]) >= getTime(q[j])
                    /\ \A j \in DOMAIN q : j < i => getTime(q[j]) < getTime(q[i])
             rest == [j \in 1..(Len(q) - 1) |-> IF j < i THEN q[j] ELSE q[j + 1]]
         IN  <<q[i]>> \o SortNewestFirst(rest)

\* Array.prototype.slice(0, n)
slice(q, n) == SubSeq(q, 1, Min(n, Len(q)))

getDashboardSummary ==
    /\ AllIdle
    /\ \E qa \in OrderByCreatedAtDesc(RecentActivityRows, FeedLimit),
          qc \in OrderByCreatedAtDesc(RecentColdCallRows, FeedLimit),
          qv \in OrderByCreatedAtDesc(RecentOnsiteVisitRows, FeedLimit) :
          LET allRecentItems == MapCreatedAt(qa) \o MapCreatedAt(qc) \o MapCreatedAt(qv)
          IN  ReturnList("getDashboardSummary", 0,
                         slice(SortNewestFirst(allRecentItems), FeedLimit))
    /\ UnchangedByRead

(***************************************************************************)
(* The logs of two leads, with any contents, read by getLeadTimeline and   *)
(* getAllActivities on a server and a database session at any offset.      *)
(***************************************************************************)
\* tables of at most n rows drawn from Rows, created_at never decreasing
\* with the id (rows are stamped with NOW() when they are inserted)
DrawnTables(Rows, n) ==
    UNION {{t \in [1..k -> Rows] :
              \A i, j \in 1..k : i < j => t[i].created_at <= t[j].created_at} : k \in 0..n}

TwoLeadContacts ==
    <<[name |-> "a", is_client |-> FALSE, client_number |-> NoText, lead_id |-> NULL,
       deleted_at |-> NULL, tx |-> 1],
      [name |-> "a", is_client |-> FALSE, client_number |-> NoText, lead_id |-> NULL,
       deleted_at |-> NULL, tx |-> 2]>>

TwoLeads ==
    <<[contact_id |-> 1, stage |-> "new", status |-> "new", tx |-> 1],
      [contact_id |-> 2, stage |-> "new", status |-> "new", tx |-> 2]>>

InitTimeline ==
    /\ contacts = TwoLeadContacts
    /\ leads = TwoLeads
    /\ activities \in DrawnTables([lead_id : DOMAIN TwoLeads, contact_id : {NULL},
                                    activity_type : {"note"},
                                    created_at : (0..1)], MaxDrawnRows)
    /\ cold_calls \in DrawnTables([lead_id : DOMAIN TwoLeads,
                                    created_at : (0..1)], MaxDrawnRows)
    /\ onsite_visits \in DrawnTables([lead_id : DOMAIN TwoLeads,
                                       created_at : (0..1)], MaxDrawnRows)
    /\ deals = EmptyTable
    /\ team_tasks = EmptyTable
    /\ notifications = EmptyTable
    /\ seqs = [contacts |-> 2, leads |-> 2, activities |-> Len(activities),
               cold_calls |-> Len(cold_calls), onsite_visits |-> Len(onsite_visits),
               deals |-> 0, team_tasks |-> 0, notifications |-> 0]
    /\ \E s, z \in {0, 19800} : pool = [out |-> 0, session_tz |-> s, process_tz |-> z]
    /\ procs = [p \in Procs |-> IdleProc]
    /\ assigned = << >>
    /\ last = NoCall
    /\ limit = 1

NextTimeline ==
    \/ \E l \in (1..(Len(TwoLeads) + 1)) : getLeadTimeline(l)
    \/ getAllActivities
    \/ \E l \in (1..(Len(TwoLeads) + 1)) : addActivity(l)
    \/ \E l \in (1..(Len(TwoLeads) + 1)) : addColdCall(l)
    \/ \E l \in (1..(Len(TwoLeads) + 1)) : addOnsiteVisit(l)

SpecTimeline == InitTimeline /\ [][NextTimeline]_vars

\* The logs of one lead with any contents, and the tasks of that lead.
\* Log rows are one second apart at most, tasks seven seconds apart.
InitFeed ==
    /\ contacts = TwoLeadContacts
    /\ leads = TwoLeads
    /\ activities \in DrawnTables([lead_id : {1}, contact_id : {NULL},
                                    activity_type : {"note", "task"},
                                    created_at : 0..1], FeedLimit + 1)
    /\ cold_calls \in DrawnTables([lead_id : {1}, created_at : 0..1], 1)
    /\ onsite_visits \in DrawnTables([lead_id : {1}, created_at : 0..1], 1)
    /\ team_tasks \in DrawnTables([lead_id : {1}, client_id : {NULL},
                                    assigned_to_email : {"u1"}, status : {"open"},
                                    created_at : {0, 7}], MaxDrawnRows)
    /\ deals = EmptyTable
    /\ notifications = EmptyTable
    /\ seqs = [contacts |-> 2, leads |-> 2, activities |-> Len(activities),
               cold_calls |-> Len(cold_calls), onsite_visits |-> Len(onsite_visits),
               deals |-> 0, team_tasks |-> Len(team_tasks), notifications |-> 0]
    /\ \E s \in {0, 19800} : pool = [out |-> 0, session_tz |-> s, process_tz |-> 0]
    /\ procs = [p \in Procs |-> IdleProc]
    /\ assigned = << >>
    /\ last = NoCall
    /\ limit = 1

SpecFeed == InitFeed /\ [][getDashboardSummary]_vars

(***************************************************************************)
(* Properties of the lead service.                                         *)
(***************************************************************************)
StepErrors == {"contact_insert_failed", "lead_insert_failed", "commit_failed"}

\* C1: a createLead call that raises because the contact insert, the lead
\* insert or the COMMIT failed leaves contacts and leads exactly as they were
\* before the call, and the error the caller receives is that underlying error.
C1_FailedCreateLeadLeavesNoRowAndRethrows ==
    (AllIdle /\ last.op = "createLead" /\ last.res = "error" /\ last.cause \in StepErrors)
        => /\ contacts = last.pre.contacts
           /\ leads = last.pre.leads
           /\ last.err = last.cause

\* C2: every lead row refers to an existing contact row, and that contact was
\* written by the transaction that wrote the lead.
C2_LeadHasContactOfItsTransaction ==
    \A l \in DOMAIN leads :
        /\ leads[l].contact_id \in DOMAIN contacts
        /\ contacts[leads[l].contact_id].tx = leads[l].tx
        /\ leads[l].tx # 0

\* C2 witness: a permanent delete was requested for the contact of a stored lead.
C2_Witness ==
    /\ last.op = "permanentDeleteClient"
    /\ \E l \in DOMAIN leads : leads[l].contact_id = last.id
    /\ \E c \in DOMAIN contacts : contacts[c].is_client

(***************************************************************************)
(* Properties of the client service.                                       *)
(***************************************************************************)
ActiveIn(t, id) == id \in DOMAIN t /\ t[id].is_client /\ t[id].deleted_at = NULL
TrashedIn(t, id) == id \in DOMAIN t /\ t[id].is_client /\ t[id].deleted_at # NULL

\* C3: deleteClient succeeds exactly from active and sets deleted_at,
\* restoreClient succeeds exactly from trashed and clears it,
\* permanentDeleteClient succeeds only from trashed and removes the row; a
\* call that returns false leaves contacts unchanged.
C3_GuardedClientTransitions ==
    LET before == last.pre.contacts
        id == last.id
    IN  /\ (AllIdle /\ last.op = "deleteClient") =>
              /\ last.res \in {"true", "false"}
              /\ (last.res = "true") = ActiveIn(before, id)
              /\ last.res = "true" =>
                    /\ contacts = [before EXCEPT ![id].deleted_at = 1]
                    /\ TrashedIn(contacts, id)
              /\ last.res = "false" => contacts = before
        /\ (AllIdle /\ last.op = "restoreClient") =>
              /\ last.res \in {"true", "false"}
              /\ (last.res = "true") = TrashedIn(before, id)
              /\ last.res = "true" =>
                    /\ contacts = [before EXCEPT ![id].deleted_at = NULL]
                    /\ ActiveIn(contacts, id)
              /\ last.res = "false" => contacts = before
        /\ (AllIdle /\ last.op = "permanentDeleteClient") =>
              /\ last.res = "true" =>
                    /\ TrashedIn(before, id)
                    /\ contacts = Delete(before, id)
              /\ ~TrashedIn(before, id) => last.res = "false"
              /\ last.res # "true" => contacts = before

\* C3 witness: a trashed client was permanently deleted.
C3_Witness == AllIdle /\ last.op = "permanentDeleteClient" /\ last.res = "true"

\* 'CLT-00000k' written out, for k up to 9
ExpectedClientNumber(k) == <<67, 76, 84, 45, 48, 48, 48, 48, 48, 48 + k>>

\* every client row ever created is still stored (active or in the trash)
NothingPurged ==
    Cardinality({c \in DOMAIN contacts : contacts[c].is_client}) = Len(assigned)

\* C4: as long as no client row was removed, the k-th client created gets
\* CLT-00000k: successive createClient calls on a table without client
\* numbers assign CLT-000001, CLT-000002, ... in call order.
C4_SequentialClientNumbers ==
    NothingPurged =>
        \A k \in 1..Len(assigned) : k <= 9 => assigned[k] = ExpectedClientNumber(k)

\* C4 witness: three clients were created one after the other.
C4_Witness ==
    /\ AllIdle /\ last.op = "createClient" /\ last.res = "ok"
    /\ Len(assigned) >= 3 /\ NothingPurged

\* C5: no two contact rows hold the same non-null client_number.
C5_ClientNumbersUnique ==
    \A a, b \in DOMAIN contacts :
        (a # b /\ contacts[a].client_number # NoText)
            => contacts[a].client_number # contacts[b].client_number

\* C5 witness: two createClient calls read the same highest number, one
\* inserted its row and the other was rejected by the unique constraint.
C5_Witness ==
    /\ last.op = "createClient" /\ last.err = "unique_violation"
    /\ last.num \in ClientNumbers

\* C6: every client number handed out is greater than all handed out before.
C6_ClientNumbersNeverReused ==
    \A i, j \in 1..Len(assigned) :
        i < j => parseInt(StripCLT(assigned[i])) < parseInt(StripCLT(assigned[j]))

InfraErrors == {"connect_timeout", "begin_failed", "select_failed", "delete_failed",
                "commit_failed", "rollback_failed"}

RowsOfOtherLeads(t, l) == [i \in {j \in DOMAIN t : t[j].lead_id # l} |-> t[i]]

\* C7: deleteLead on an existing lead (the database being available) returns
\* true and removes the lead with its activities, cold calls and onsite
\* visits; every other lead and log row is unchanged.
C7_DeleteLeadCascades ==
    (/\ AllIdle /\ last.op = "deleteLead"
     /\ last.id \in DOMAIN last.pre.leads
     /\ last.cause \notin InfraErrors)
        => /\ last.res = "true"
           /\ leads = Delete(last.pre.leads, last.id)
           /\ activities = RowsOfOtherLeads(last.pre.activities, last.id)
           /\ cold_calls = RowsOfOtherLeads(last.pre.cold_calls, last.id)
           /\ onsite_visits = RowsOfOtherLeads(last.pre.onsite_visits, last.id)

(***************************************************************************)
(* Properties of the tasks service.                                        *)
(***************************************************************************)
TaskSideTablesUnchanged ==
    /\ team_tasks = last.pre.team_tasks
    /\ activities = last.pre.activities
    /\ notifications = last.pre.notifications

\* exactly one row was added to team_tasks, for lead l / client c
OneTaskInserted(l, c) ==
    \E t \in DOMAIN team_tasks :
        /\ t \notin DOMAIN last.pre.team_tasks
        /\ DOMAIN team_tasks = DOMAIN last.pre.team_tasks \cup {t}
        /\ \A u \in DOMAIN last.pre.team_tasks : team_tasks[u] = last.pre.team_tasks[u]
        /\ team_tasks[t].lead_id = l /\ team_tasks[t].client_id = c

\* C8 as stated: createTask with both or neither of leadId and clientId
\* raises and inserts no task, activity or notification; with exactly one of
\* them it inserts exactly one task row.
C8_CreateTaskExclusive ==
    (AllIdle /\ last.op = "createTask") =>
        LET l == last.id
            c == last.arg
        IN  /\ ((l # NULL) = (c # NULL)) =>
                    last.res = "error" /\ TaskSideTablesUnchanged
            /\ ((l # NULL) # (c # NULL)) => OneTaskInserted(l, c)

\* C8, amended: createTask with both or neither of leadId and clientId raises
\* and inserts no task, activity or notification; with exactly one of them,
\* naming an existing lead or contact, it inserts exactly one task row; with
\* exactly one of them naming no existing row it raises and inserts nothing.
C8_CreateTaskExclusiveForExistingParent ==
    (AllIdle /\ last.op = "createTask") =>
        LET l == last.id
            c == last.arg
            one == (l # NULL) # (c # NULL)
            exists == /\ l = NULL \/ l \in DOMAIN last.pre.leads
                      /\ c = NULL \/ c \in DOMAIN last.pre.contacts
        IN  /\ ~one => last.res = "error" /\ TaskSideTablesUnchanged
            /\ (one /\ exists) => last.res = "ok" /\ OneTaskInserted(l, c)
            /\ (one /\ ~exists) => last.res = "error" /\ TaskSideTablesUnchanged

\* C8 witness: createTask was given only a leadId, and it names no lead.
C8_Witness ==
    /\ AllIdle /\ last.op = "createTask"
    /\ last.id # NULL /\ last.arg = NULL
    /\ last.id \notin DOMAIN last.pre.leads
    /\ last.res = "error"

\* C9: every task row has exactly one of lead_id and client_id set.
C9_TaskHasExactlyOneParent ==
    \A t \in DOMAIN team_tasks :
        (team_tasks[t].lead_id # NULL) # (team_tasks[t].client_id # NULL)

\* C9 witness: updateTask reassigned a task that belongs to a client.
C9_Witness ==
    /\ AllIdle /\ last.op = "updateTask" /\ last.res = "ok"
    /\ last.id \in DOMAIN team_tasks
    /\ team_tasks[last.id].client_id # NULL
    /\ team_tasks[last.id].assigned_to_email
          # last.pre.team_tasks[last.id].assigned_to_email

(***************************************************************************)
(* Properties of the deals service.                                        *)
(***************************************************************************)
\* s spells the lower-case name v, letter case aside
SpellsStage(s, v) ==
    /\ Len(s) = Len(v)
    /\ \A i \in 1..Len(v) : s[i] = v[i] \/ s[i] = v[i] - 32

\* C10: moveDealToStage with a stage that is, letter case aside, none of the
\* five stage names, or with a deal id that matches no deal, raises and
\* changes no deal row; with a valid stage in any letter case and an existing
\* deal it stores the lower-case name on that deal and on no other.
C10_MoveDealToStageValidates ==
    (AllIdle /\ last.op = "moveDealToStage") =>
        LET before == last.pre.deals
            valid == \E v \in VALID_STAGES : SpellsStage(last.num, v)
            found == last.id \in DOMAIN before
        IN  /\ (~valid \/ ~found) => last.res = "error" /\ deals = before
            /\ (valid /\ found) =>
                  /\ last.res = "ok"
                  /\ \E v \in VALID_STAGES :
                        /\ SpellsStage(last.num, v)
                        /\ deals = [before EXCEPT ![last.id].stage = v]

\* C10 witness: a stage written with capital letters was stored on one of
\* two deals.
C10_Witness ==
    /\ AllIdle /\ last.op = "moveDealToStage" /\ last.res = "ok"
    /\ last.num \notin VALID_STAGES
    /\ Cardinality(DOMAIN deals) >= 2
    /\ deals[last.id].stage # last.pre.deals[last.id].stage

\* C11: createDealFromLead with a leadId that matches no lead raises the
\* not-found error and inserts no deal row, and POST /deals answers it with
\* status 404 and success false.
C11_CreateDealUnknownLeadIs404 ==
    (/\ AllIdle /\ last.op = "createDealFromLead"
     /\ last.id \notin DOMAIN last.pre.leads)
        => /\ last.res = "error" /\ last.err = "not_found"
           /\ deals = last.pre.deals
           /\ createDealResponse = [status |-> 404, success |-> FALSE]

\* C11 witness: with a deal already stored, a deal was requested for a lead
\* id that passes validation and matches no lead.
C11_Witness ==
    /\ AllIdle /\ last.op = "createDealFromLead"
    /\ last.id \notin DOMAIN leads
    /\ last.res = "error"
    /\ deals # EmptyTable

(***************************************************************************)
(* Properties of the log reads.                                            *)
(***************************************************************************)
\* list q holds exactly the rows of log t whose lead_id is l, each once,
\* newest first
ListsRowsOfLead(q, t, l) ==
    /\ {q[i].id : i \in DOMAIN q} = {j \in DOMAIN t : t[j].lead_id = l}
    /\ Len(q) = Cardinality({j \in DOMAIN t : t[j].lead_id = l})
    /\ \A i \in DOMAIN q : q[i].lead_id = l
    /\ \A i, j \in DOMAIN q : i < j => q[i].created_at.wall >= q[j].created_at.wall

\* the log an add call writes to
LogOf(op) ==
    IF op = "addActivity" THEN activities
    ELSE IF op = "addColdCall" THEN cold_calls
    ELSE onsite_visits

\* C13: getLeadTimeline(L) returns three separate lists that hold exactly
\* the activities, cold calls and onsite visits whose lead_id is L, each
\* ordered by created_at from newest to oldest; a row added by addActivity,
\* addColdCall or addOnsiteVisit for lead L carries lead_id L, is among the
\* rows of L's list of that kind and among the rows of no other lead's list.
C13_TimelineListsPerLeadNewestFirst ==
    /\ (AllIdle /\ last.op = "getLeadTimeline") =>
          /\ DOMAIN last.out = {"activities", "coldCalls", "onsiteVisits"}
          /\ ListsRowsOfLead(last.out.activities, activities, last.id)
          /\ ListsRowsOfLead(last.out.coldCalls, cold_calls, last.id)
          /\ ListsRowsOfLead(last.out.onsiteVisits, onsite_visits, last.id)
    /\ (/\ AllIdle /\ last.op \in {"addActivity", "addColdCall", "addOnsiteVisit"}
        /\ last.res = "ok") =>
          /\ last.id \in DOMAIN LogOf(last.op)
          /\ last.id \notin DOMAIN last.pre[IF last.op = "addActivity" THEN "activities"
                                            ELSE IF last.op = "addColdCall"
                                              THEN "cold_calls" ELSE "onsite_visits"]
          /\ LogOf(last.op)[last.id].lead_id = last.arg
          /\ \A l \in (1..(Len(TwoLeads) + 1)) :
                (\E r \in RowsForLead(LogOf(last.op), l) : r.id = last.id)
                    <=> l = last.arg

\* C13 witness: the timeline of a lead with two activities of different
\* age was read while another lead has a cold call.
C13_Witness ==
    /\ AllIdle /\ last.op = "getLeadTimeline"
    /\ Len(last.out.activities) = 2
    /\ last.out.activities[1].created_at # last.out.activities[2].created_at
    /\ Len(last.out.coldCalls) >= 1
    /\ \E i \in DOMAIN cold_calls : cold_calls[i].lead_id # last.id

\* C19: every read path returns a stored created_at as the same reading at
\* offset 0 (stored 10:00:00 is read as 10:00:00.000Z), whatever the offset
\* of the server process and of the database session.
C19_CreatedAtReadBackAsUTC ==
    /\ (AllIdle /\ last.op = "getLeadTimeline") =>
          /\ \A i \in DOMAIN last.out.activities :
                last.out.activities[i].created_at
                  = [wall |-> activities[last.out.activities[i].id].created_at, off |-> 0]
          /\ \A i \in DOMAIN last.out.coldCalls :
                last.out.coldCalls[i].created_at
                  = [wall |-> cold_calls[last.out.coldCalls[i].id].created_at, off |-> 0]
          /\ \A i \in DOMAIN last.out.onsiteVisits :
                last.out.onsiteVisits[i].created_at
                  = [wall |-> onsite_visits[last.out.onsiteVisits[i].id].created_at,
                     off |-> 0]
    /\ (AllIdle /\ last.op = "getAllActivities") =>
          \A i \in DOMAIN last.out :
              last.out[i].created_at
                = [wall |-> activities[last.out[i].id].created_at, off |-> 0]

\* the log a feed entry is tagged with
LogOfSource(source) ==
    IF source = "activity" THEN activities
    ELSE IF source = "cold_call" THEN cold_calls ELSE onsite_visits

FeedSources == {"activity", "cold_call", "onsite_visit"}

\* C12: the recentActivities feed of getDashboardSummary has at most
\* FeedLimit (25 in the code) entries and runs from the newest entry to the
\* oldest, whichever log each entry was read from.
C12_FeedIsBoundedAndNewestFirst ==
    last.op = "getDashboardSummary" =>
        /\ Len(last.out) <= FeedLimit
        /\ \A i, j \in DOMAIN last.out :
               i < j => getTime(last.out[i]) >= getTime(last.out[j])

\* a full feed with entries of two logs, cut from rows of all three logs,
\* whose newest entry is not an activity
C12_Witness ==
    /\ last.op = "getDashboardSummary"
    /\ Len(last.out) = FeedLimit
    /\ Len(activities) + Len(cold_calls) + Len(onsite_visits) > FeedLimit
    /\ Len(activities) > FeedLimit /\ cold_calls # << >> /\ onsite_visits # << >>
    /\ Cardinality({last.out[i].source_type : i \in DOMAIN last.out}) > 1
    /\ last.out[1].source_type # "activity"
    /\ getTime(last.out[1]) > getTime(last.out[FeedLimit])

\* C20: the feed is the FeedLimit newest rows of the three logs taken
\* together: no log row appears twice, every entry is a row of the log it
\* is tagged with, the feed is as long as the logs allow, and no row left
\* out is newer than an entry.
C20_FeedIsNewestOfUnion ==
    last.op = "getDashboardSummary" =>
        LET out == last.out
            In(source, id) == \E i \in DOMAIN out :
                                 out[i].source_type = source /\ out[i].id = id
        IN  /\ \A i, j \in DOMAIN out :
                   i # j => <<out[i].source_type, out[i].id>> # <<out[j].source_type, out[j].id>>
            /\ \A i \in DOMAIN out :
                   /\ out[i].id \in DOMAIN LogOfSource(out[i].source_type)
                   /\ LogOfSource(out[i].source_type)[out[i].id].created_at = getTime(out[i])
            /\ Len(out) = Min(FeedLimit, Len(activities) + Len(cold_calls) + Len(onsite_visits))
            /\ \A source \in FeedSources : \A id \in DOMAIN LogOfSource(source) :
                   ~In(source, id) =>
                       \A i \in DOMAIN out :
                           LogOfSource(source)[id].created_at <= getTime(out[i])

\* C14: a createTask or updateTask whose write to team_tasks went through
\* returns the task, and the write stays stored, whether the activity
\* insert, the mark-as-read update and the notification insert succeed or
\* fail; a call that raises has written no task.
C14_TaskWriteSurvivesSideEffects ==
    (AllIdle /\ last.op \in {"createTask", "updateTask"}) =>
        /\ team_tasks # last.pre.team_tasks => last.res = "ok"
        /\ last.res = "error" => team_tasks = last.pre.team_tasks
        /\ (last.op = "createTask" /\ last.res = "ok") => OneTaskInserted(last.id, last.arg)
        /\ (last.op = "updateTask" /\ last.res = "ok") =>
               /\ DOMAIN team_tasks = DOMAIN last.pre.team_tasks
               /\ last.id \in DOMAIN team_tasks

\* C14 witness: a task was written while the activity insert and the
\* notification insert both failed.
C14_Witness ==
    /\ AllIdle /\ last.op = "createTask" /\ last.res = "ok"
    /\ OneTaskInserted(last.id, last.arg)
    /\ activities = last.pre.activities
    /\ notifications = last.pre.notifications

\* the requests that hold a connection of the pool
HoldsConnection(p) == procs[p].op \in {"createLead", "deleteLead"}

\* C15: every connection createLead or deleteLead checks out is released
\* exactly once, on success, on not found and on the failure of BEGIN, of an
\* insert, of the delete, of COMMIT or of ROLLBACK: the pool has as many
\* connections checked out as there are such calls in flight, and none when
\* no call is in flight.
C15_ConnectionsReleasedOnce ==
    /\ pool.out = Cardinality({p \in Procs : HoldsConnection(p)})
    /\ \A p \in Procs : procs[p].conn = HoldsConnection(p)
    /\ AllIdle => pool.out = 0

\* C15 witness: a call whose ROLLBACK failed has returned while another
\* call still holds its connection.
C15_Witness ==
    /\ last.op \in {"createLead", "deleteLead"}
    /\ last.err = "rollback_failed"
    /\ pool.out = 1
    /\ \E p \in Procs : HoldsConnection(p)

\* the keys of the rows a client read returned
ReturnedIds == {r.id : r \in last.out.rows}

\* C16: getAllClients returns exactly the contacts with is_client true and
\* deleted_at null, getDeletedClients exactly those with is_client true and
\* deleted_at set, getClientById returns null for a trashed client; a
\* trashed row stays stored, trashed, across every call that is not its
\* restore or its permanent deletion.
C16_TrashedClientsListedApart ==
    /\ last.op = "getAllClients" =>
           ReturnedIds = {i \in DOMAIN contacts : ActiveIn(contacts, i)}
    /\ last.op = "getDeletedClients" =>
           ReturnedIds = {i \in DOMAIN contacts : TrashedIn(contacts, i)}
    /\ last.op = "getClientById" =>
           /\ TrashedIn(contacts, last.id) => last.out.rows = {}
           /\ ReturnedIds = {i \in {last.id} : ActiveIn(contacts, i)}
    /\ (AllIdle /\ last.op \notin {"none", "restoreClient", "permanentDeleteClient"}) =>
           \A i \in DOMAIN last.pre.contacts :
               TrashedIn(last.pre.contacts, i) => TrashedIn(contacts, i)

\* C16 witness: the normal listing returned a client while another client
\* sits in the trash.
C16_Witness ==
    /\ last.op = "getAllClients"
    /\ last.out.rows # {}
    /\ \E i \in DOMAIN contacts : TrashedIn(contacts, i)

\* C17: a client transition asked for in the wrong state (DELETE on a
\* trashed client, restore or permanent delete on a client that is not
\* trashed) is answered 400 with success false and changes no contact row.
C17_WrongStateTransitionIs400 ==
    (AllIdle /\ \/ last.op = "deleteClient" /\ TrashedIn(last.pre.contacts, last.id)
                \/ /\ last.op \in {"restoreClient", "permanentDeleteClient"}
                   /\ ActiveIn(last.pre.contacts, last.id)) =>
        /\ ClientResponse = [status |-> 400, success |-> FALSE]
        /\ contacts = last.pre.contacts

\* the body of the POST /leads request recorded in last
LastBody == [contact |-> last.id, stage |-> last.arg]

\* C18: a POST /leads whose body fails validation is answered 400 with
\* success false and field errors and inserts no contact and no lead; a body
\* that passes validation is, the database being available, answered 201
\* with the created lead joined with its contact.
C18_CreateLeadValidatesAtTheBoundary ==
    (AllIdle /\ last.op = "createLead") =>
        /\ ~validateCreateLead(LastBody) =>
               /\ createLeadResponse = [status |-> 400, success |-> FALSE, errors |-> TRUE]
               /\ contacts = last.pre.contacts /\ leads = last.pre.leads
        /\ (validateCreateLead(LastBody) /\ last.cause \notin InfraErrors \cup StepErrors) =>
               /\ createLeadResponse.status = 201
               /\ last.lid \in DOMAIN leads /\ last.lid \notin DOMAIN last.pre.leads
               /\ leads[last.lid].contact_id = last.cid
               /\ last.cid \in DOMAIN contacts /\ last.cid \notin DOMAIN last.pre.contacts

\* the rows a call added to table t, by key
NewKeys(t, before) == DOMAIN t \ DOMAIN before

\* the lead an activity of task t is to be linked to
LeadOfTask(t) ==
    IF team_tasks[t].lead_id # NULL THEN team_tasks[t].lead_id
    ELSE contacts[team_tasks[t].client_id].lead_id

\* C21: after a successful createTask and after a successful updateTask whose
\* side effects all went through, a new activity row of type task linked to
\* the task's lead (the client's stored lead_id for a task of a client)
\* exists, and a new notification for the assignee exists.
C21_TaskWriteLeavesActivityAndNotification ==
    (/\ AllIdle /\ last.op \in {"createTask", "updateTask"} /\ last.res = "ok"
     /\ NewKeys(notifications, last.pre.notifications) # {}
     /\ last.op = "createTask" => NewKeys(activities, last.pre.activities) # {}) =>
        LET t == IF last.op = "updateTask" THEN last.id
                 ELSE CHOOSE k \in NewKeys(team_tasks, last.pre.team_tasks) : TRUE
        IN  /\ \E a \in NewKeys(activities, last.pre.activities) :
                   /\ activities[a].activity_type = "task"
                   /\ LeadOfTask(t) # NULL => activities[a].lead_id = LeadOfTask(t)
            /\ \E n \in NewKeys(notifications, last.pre.notifications) :
                   /\ notifications[n].user_email = team_tasks[t].assigned_to_email
                   /\ notifications[n].related_task_id = t

\* the unread task notifications of user u that relate to task t
UnreadTaskNotifications(t, u) ==
    {n \in DOMAIN notifications :
        /\ notifications[n].related_task_id = t
        /\ notifications[n].user_email = u
        /\ ~notifications[n].is_read
        /\ notifications[n].type \in {"task_assigned", "task_updated"}}

\* C22: when calls do not overlap and no side effect fails, every task and
\* every user have at most one unread notification of type task_assigned or
\* task_updated that relates to the task.
C22_OneUnreadNotificationPerTaskAndUser ==
    \A t \in TaskIdArgs, u \in Emails : Cardinality(UnreadTaskNotifications(t, u)) <= 1

\* C22 witness: updateTask marked the assignee's earlier notification of the
\* task read and left its own unread.
C22_Witness ==
    /\ last.op = "updateTask" /\ last.res = "ok"
    /\ \E n, m \in DOMAIN notifications :
          /\ notifications[n].related_task_id = last.id
          /\ notifications[m].related_task_id = last.id
          /\ notifications[n].user_email = notifications[m].user_email
          /\ notifications[n].is_read /\ ~notifications[m].is_read

\* C23: every lead row has a stage in {new, qualified, proposal,
\* negotiation, closed} and a status in {new, contacted, won, lost}; a lead
\* created by createLead has status new and the stage of the request, or
\* stage new when the request gives none.
C23_LeadStageAndStatusAreEnumerated ==
    /\ \A l \in DOMAIN leads :
          /\ leads[l].stage \in {"new", "qualified", "proposal", "negotiation", "closed"}
          /\ leads[l].status \in {"new", "contacted", "won", "lost"}
    /\ (AllIdle /\ last.op = "createLead" /\ last.res = "ok") =>
          /\ leads[last.lid].status = "new"
          /\ last.arg = 0 => leads[last.lid].stage = "new"
          /\ last.arg = 1 => leads[last.lid].stage = "qualified"

\* C24: under any interleaving of createDealFromLead, createClient and
\* deleteLead, every deal's lead_id and every client's non-null lead_id
\* names a stored lead.
C24_LeadReferencesNeverDangle ==
    /\ \A d \in DOMAIN deals : deals[d].lead_id \in DOMAIN leads
    /\ \A c \in DOMAIN contacts :
          contacts[c].lead_id # NULL => contacts[c].lead_id \in DOMAIN leads

\* C24 witness: a createDealFromLead found its lead and then lost it to a
\* deleteLead that committed before the insert.
C24_Witness ==
    /\ last.op = "createDealFromLead" /\ last.err = "fk_violation"
    /\ last.id \notin DOMAIN leads

\* p is a createClient that has read its candidate number and not yet inserted
AtClientInsert(p) == procs[p].op = "createClient" /\ procs[p].pc = "insert"

\* C25: a createClient that reads the highest client number while another
\* call holds a candidate read from the same numbers and not yet inserted
\* computes the same candidate; the call that inserts second
\* finds the number taken, raises and inserts nothing, the call that inserts
\* first stores one row with the candidate.
C25_OverlappingCreateClientOneWins ==
    [][/\ \A p, q \in Procs :
             (/\ AtClientInsert(p) /\ procs[p].num = generateClientNumber
              /\ procs[q].op = "idle" /\ procs'[q].op = "createClient") =>
                 procs'[q].num = procs[p].num
       /\ \A p \in Procs :
             (AtClientInsert(p) /\ procs'[p].op = "idle") =>
                 IF procs[p].num \in ClientNumbers
                   THEN contacts' = contacts /\ last'.res = "error"
                   ELSE /\ last'.res = "error" => contacts' = contacts
                        /\ last'.res = "ok" =>
                              /\ Cardinality(DOMAIN contacts') = Cardinality(DOMAIN contacts) + 1
                              /\ procs[p].num \in {contacts'[c].client_number :
                                                     c \in DOMAIN contacts'}]_vars

\* C25 witness: the second of two overlapping createClient calls was rejected
\* because the first had stored their common candidate.
C25_Witness ==
    /\ last.op = "createClient" /\ last.err = "unique_violation"
    /\ \E c \in DOMAIN contacts : contacts[c].client_number = last.num

\* C26: every createLead and deleteLead call returns or raises in the end;
\* a call the pool gave no connection within the timeout has failed with the
\* timeout error, has written nothing and is not retried.
C26_LeadCallsTerminate ==
    /\ \A p \in Procs : (procs[p].op # "idle") ~> (procs[p].op = "idle")
    /\ [](last.err = "connect_timeout" =>
            /\ last.res = "error"
            /\ Tables = last.pre
            /\ AllIdle)

\* C26 witness: a createLead was refused a connection after an earlier
\* call had stored a lead.
C26_Witness ==
    /\ last.op = "createLead" /\ last.err = "connect_timeout"
    /\ leads # EmptyTable

AtTrashWrite(p) ==
    \/ procs[p].op \in {"deleteClient", "restoreClient"} /\ procs[p].pc = "update"
    \/ procs[p].op = "permanentDeleteClient" /\ procs[p].pc = "delete"

\* the state the guard of a trash call requires
GuardHolds(op, id) ==
    IF op = "deleteClient" THEN ActiveIn(contacts, id) ELSE TrashedIn(contacts, id)

\* two calls that compete for the same transition
Competes(op1, op2) ==
    \/ op1 = "deleteClient" /\ op2 = "deleteClient"
    \/ {op1, op2} \subseteq {"restoreClient", "permanentDeleteClient"}

\* C27: with deleteClient, restoreClient and permanentDeleteClient calls
\* interleaved on the same client, a call returns true only if the row was in
\* the state its guard requires when it wrote, and it then made its
\* transition; a write that finds that state succeeds; and a call whose
\* competitor for the same transition has just returned true does not
\* return true as well.
C27_TrashCallsDecideAtTheWrite ==
    [][\A p \in Procs :
         (AtTrashWrite(p) /\ procs'[p].op = "idle") =>
            LET id == procs[p].id
                op == procs[p].op
            IN  /\ last'.res = "true" =>
                      /\ GuardHolds(op, id)
                      /\ CASE op = "deleteClient" -> TrashedIn(contacts', id)
                           [] op = "restoreClient" -> ActiveIn(contacts', id)
                           [] OTHER -> id \notin DOMAIN contacts'
                /\ last'.res # "true" => contacts' = contacts
                /\ GuardHolds(op, id) =>
                      \/ last'.res = "true"
                      \/ op = "permanentDeleteClient" /\ last'.err = "fk_violation"
                /\ (last.res = "true" /\ last.id = id /\ Competes(last.op, op)) =>
                      last'.res # "true"]_vars

\* C27 witness: one of two overlapping deleteClient calls on the same active
\* client has returned true while the other has still to write.
C27_Witness ==
    /\ last.op = "deleteClient" /\ last.res = "true"
    /\ \E q \in Procs : /\ procs[q].op = "deleteClient" /\ procs[q].pc = "update"
                         /\ procs[q].id = last.id

\* C29: when updateClient has returned null (unknown id, a contact that is
\* not a client, or a trashed client) no contact row has been modified.
C29_UpdateClientNullLeavesContacts ==
    (last.op = "updateClient" /\ last.res = "null") =>
        contacts = last.pre.contacts

\* C30: once two overlapping updateTask calls on the same task have both
\* completed, there is at most one unread task_assigned or task_updated
\* notification for the task and its assignee.
C30_OverlappingUpdatesLeaveOneUnread ==
    AllIdle =>
        \A t \in DOMAIN team_tasks :
            Cardinality(UnreadTaskNotifications(t, team_tasks[t].assigned_to_email)) <= 1

====
